---- MODULE Spec2Model ----
(***************************************************************************)
(* HEST error-source aggregation: the HEST table builder and installer     *)
(* (HestDxe.c), the MM communication channel (MmCommunicationDxe), the     *)
(* normal-world client (HestErrorSourceDxe) and the Standalone MM gateway  *)
(* handler (HestErrorSourceStandaloneMm).                                  *)
(*                                                                         *)
(* Memory is modelled as sequences of bytes (0..255).  A 32-bit field that *)
(* lives in a buffer is kept as its four little-endian bytes, so additions *)
(* on it wrap at 2^32 exactly as the C code's do.                          *)
(***************************************************************************)
EXTENDS Integers, Sequences, FiniteSets, TLC

(***************************************************************************)
(* Bounds of the model.                                                    *)
(***************************************************************************)
\* Most descriptor nodes the list holds before further appends are cut off.
MaxDesc == 2
\* Largest ErrorSourceDescriptorCount / provider record count drawn.
MaxCount == 1

(***************************************************************************)
(* EFI status codes.                                                       *)
(***************************************************************************)
EFI_SUCCESS == "EFI_SUCCESS"
EFI_INVALID_PARAMETER == "EFI_INVALID_PARAMETER"
EFI_UNSUPPORTED == "EFI_UNSUPPORTED"
EFI_BAD_BUFFER_SIZE == "EFI_BAD_BUFFER_SIZE"
EFI_BUFFER_TOO_SMALL == "EFI_BUFFER_TOO_SMALL"
EFI_OUT_OF_RESOURCES == "EFI_OUT_OF_RESOURCES"
EFI_NOT_FOUND == "EFI_NOT_FOUND"
EFI_ACCESS_DENIED == "EFI_ACCESS_DENIED"
EFI_DEVICE_ERROR == "EFI_DEVICE_ERROR"

EFI_ERROR(Status) == Status # EFI_SUCCESS

NONE == "NONE"

\* Pointers: NULL, or a pointer to memory holding the bytes mem.
NULL == [null |-> TRUE, mem |-> <<>>]

Ptr(mem) == [null |-> FALSE, mem |-> mem]

(***************************************************************************)
(* Bytes, buffers and little-endian fields.                                *)
(***************************************************************************)
Zeros(n) == [i \in 1..n |-> 0]

\* A byte whose value the program never wrote (memory outside an allocation).
Indeterminate == 0 - 1

Unknown(n) == [i \in 1..n |-> Indeterminate]

RECURSIVE Pow256(_)
Pow256(k) == IF k = 0 THEN 1 ELSE 256 * Pow256(k - 1)

\* The i-th (1-based) little-endian byte of the machine word n.
Digit(n, i) == (n \div Pow256(i - 1)) % 256

\* Value of the w-byte little-endian field at 0-based offset off of buf.
RECURSIVE ReadLE(_, _, _)
ReadLE(buf, off, w) ==
  IF w = 0 THEN 0 ELSE buf[off + 1] + 256 * ReadLE(buf, off + 1, w - 1)

\* buf with bytes written from 0-based offset off on (CopyMem into buf).
WriteAt(buf, off, bytes) ==
  [i \in 1..Len(buf) |->
     IF i > off /\ i <= off + Len(bytes) THEN bytes[i - off] ELSE buf[i]]

\* The w little-endian bytes of field + n, the carry out of the top byte lost.
RECURSIVE AddLE(_, _, _, _)
AddLE(field, n, i, carry) ==
  IF i > Len(field) THEN <<>>
  ELSE LET s == field[i] + Digit(n, i) + carry
       IN  <<s % 256>> \o AddLE(field, n, i + 1, s \div 256)

\* "*(UINT32 *)(buf + off) += n".
AddToField32(buf, off, n) ==
  WriteAt(buf, off, AddLE(SubSeq(buf, off + 1, off + 4), n, 1, 0))

\* "*(UINT32 *)(buf + off) = n".
SetField32(buf, off, n) == WriteAt(buf, off, [i \in 1..4 |-> Digit(n, i)])

RECURSIVE SumSeq(_)
SumSeq(s) == IF s = <<>> THEN 0 ELSE Head(s) + SumSeq(Tail(s))

RECURSIVE Flatten(_)
Flatten(ss) == IF ss = <<>> THEN <<>> ELSE Head(ss) \o Flatten(Tail(ss))


(***************************************************************************)
(* Pool allocations.                                                       *)
(***************************************************************************)
\* An account of pool allocations by purpose: for each purpose t, how many
\* AllocateZeroPool calls returned a buffer and how many FreePool calls were
\* made on such buffers.
NoPool(purposes) == [t \in purposes |-> [Allocs |-> 0, Frees |-> 0]]

AllocateZeroPool(pool, t) == [pool EXCEPT ![t].Allocs = @ + 1]

\* Mutant: FreePool releases nothing.
FreePool_Nothing(pool, t) == pool

\* Mutant: the buffer is freed twice.
FreePool_Twice(pool, t) == [pool EXCEPT ![t].Frees = @ + 2]

FreePool(pool, t) == [pool EXCEPT ![t].Frees = @ + 1]

\* The pool after one more allocation attempt for purpose t.
Allocated(pool, t, ok) == IF ok THEN AllocateZeroPool(pool, t) ELSE pool

(***************************************************************************)
(* HestDxe.c : the table builder and installer.                            *)
(***************************************************************************)
\* Byte layout of EFI_ACPI_6_4_HARDWARE_ERROR_SOURCE_TABLE_HEADER: the ACPI
\* description header (36 bytes) followed by the 32-bit ErrorSourceCount.
HestHdr ==
  [Signature        |-> 0,
   Length           |-> 4,
   Revision         |-> 8,
   OemId            |-> 10,
   ErrorSourceCount |-> 36,
   Size             |-> 40]

\* 'H','E','S','T'
HestSignature == <<72, 69, 83, 84>>

\* EFI_ACPI_6_4_HARDWARE_ERROR_SOURCE_TABLE_REVISION
HestRevision == <<1>>

\* OemId, OemTableId, OemRevision, CreatorId and CreatorRevision come from
\* platform configuration (PCDs); one fixed platform is modelled.
PcdAcpiDefaults == [i \in 1..26 |-> 65]

\* A list node: HEST_DXE_DRIVER_DATA without its Link.
Node(data, len) == [HestTableData |-> data, DataLength |-> len]

IsListEmpty(list) == list = <<>>

InsertHeadList(list, node) == <<node>> \o list

\* Mutant: the new node is linked in at the head instead of the tail.
InsertTailList_AtHead(list, node) == <<node>> \o list

InsertTailList(list, node) == Append(list, node)

GetFirstNode(list) == Head(list)

\* The list after RemoveEntryList on its first node.
RemoveEntryList(list) == Tail(list)

\* The header block BuildHestHeader fills in, in a zeroed allocation.
NewHestHeader ==
  LET z   == Zeros(HestHdr.Size)
      sig == WriteAt(z, HestHdr.Signature, HestSignature)
      len == AddToField32(sig, HestHdr.Length, HestHdr.Size)
      rev == WriteAt(len, HestHdr.Revision, HestRevision)
      oem == WriteAt(rev, HestHdr.OemId, PcdAcpiDefaults)
  IN  SetField32(oem, HestHdr.ErrorSourceCount, 0)

\* BuildHestHeader.  allocNode, allocData: whether the two AllocateZeroPool
\* calls succeed.  The data pointer is stored through the node pointer before
\* either is tested, so a failed node allocation is a store through NULL:
\* fault tells whether that store traps.  pool is the account of the
\* builder's allocations: "node" for node records, "data" for data blocks.
BuildHestHeader(list, pool, allocNode, allocData, fault) ==
  LET p == Allocated(Allocated(pool, "node", allocNode), "data", allocData)
      failed == ~allocNode \/ ~allocData
  IN
  IF ~allocNode /\ fault
    THEN [Status |-> NONE, List |-> list, Halted |-> TRUE, Pool |-> p,
          AllocFailed |-> failed]
  ELSE IF failed
    THEN [Status |-> EFI_OUT_OF_RESOURCES, List |-> list, Halted |-> FALSE,
          Pool |-> p, AllocFailed |-> failed]
  ELSE [Status |-> EFI_SUCCESS,
        List   |-> InsertHeadList(list, Node(NewHestHeader, HestHdr.Size)),
        Halted |-> FALSE, Pool |-> p, AllocFailed |-> failed]

\* Mutant: the length field is not advanced.
UpdateHestHeader_NoLength(hdr, Size, Count) ==
  AddToField32(hdr, HestHdr.ErrorSourceCount, Count)

\* Mutant: the count is overwritten instead of accumulated.
UpdateHestHeader_SetCount(hdr, Size, Count) ==
  SetField32(AddToField32(hdr, HestHdr.Length, Size),
             HestHdr.ErrorSourceCount, Count)

\* The head node's data after the header update at the end of a successful
\* append: Header.Length += Size; ErrorSourceCount += Count.
UpdateHestHeader(hdr, Size, Count) ==
  AddToField32(AddToField32(hdr, HestHdr.Length, Size),
               HestHdr.ErrorSourceCount, Count)

\* The list with its head node's data replaced.
WithHeader(list, hdr) ==
  <<Node(hdr, GetFirstNode(list).DataLength)>> \o Tail(list)

\* AddErrorSourceDescriptor (List, Size, Count).  List is NULL or the caller's
\* buffer; alloc[1..4] are the outcomes of the four AllocateZeroPool calls in
\* program order (header node, header data, descriptor node, descriptor data).
AddErrorSourceDescriptor(list, pool, List, Size, Count, alloc, fault) ==
  IF List = NULL \/ Size = 0
    THEN [Status |-> EFI_INVALID_PARAMETER, List |-> list, Halted |-> FALSE,
          Pool |-> pool, AllocFailed |-> FALSE]
  ELSE
    LET hb == IF IsListEmpty(list)
                THEN BuildHestHeader(list, pool, alloc[1], alloc[2], fault)
                ELSE [Status |-> EFI_SUCCESS, List |-> list, Halted |-> FALSE,
                      Pool |-> pool, AllocFailed |-> FALSE]
        p  == Allocated(Allocated(hb.Pool, "node", alloc[3]), "data",
                        alloc[4])
        failed == ~alloc[3] \/ ~alloc[4]
    IN
    IF hb.Halted THEN hb
    ELSE IF hb.Status = EFI_OUT_OF_RESOURCES THEN hb
    ELSE IF ~alloc[3] /\ fault
      THEN [Status |-> NONE, List |-> hb.List, Halted |-> TRUE, Pool |-> p,
            AllocFailed |-> failed]
    ELSE IF failed
      THEN [Status |-> EFI_OUT_OF_RESOURCES, List |-> hb.List,
            Halted |-> FALSE, Pool |-> p, AllocFailed |-> failed]
    ELSE
      LET data == WriteAt(Zeros(Size), 0, SubSeq(List.mem, 1, Size))
          l2   == InsertTailList(hb.List, Node(data, Size))
          hdr  == UpdateHestHeader(GetFirstNode(l2).HestTableData, Size, Count)
      IN  [Status |-> EFI_SUCCESS, List |-> WithHeader(l2, hdr),
           Halted |-> FALSE, Pool |-> p, AllocFailed |-> failed]

\* Mutant: each node is copied to the front of what was copied before it.
RECURSIVE InstallLoop_Reversed(_, _)
InstallLoop_Reversed(list, written) ==
  IF list = <<>> THEN written
  ELSE InstallLoop_Reversed(Tail(list),
         SubSeq(Head(list).HestTableData, 1, Head(list).DataLength)
           \o written)

\* The copy loop of InstallHestAcpiTable: the bytes written through the
\* advancing HestTable pointer, node after node, each node being removed
\* from the list once copied.
RECURSIVE InstallLoop(_, _)
InstallLoop(list, written) ==
  IF IsListEmpty(list) THEN written
  ELSE LET n == GetFirstNode(list)
       IN  InstallLoop(RemoveEntryList(list),
                       written \o SubSeq(n.HestTableData, 1, n.DataLength))

\* The HestTableSize bytes at the pointer handed to InstallAcpiTable, which is
\* the end of the bytes written moved back by HestTableSize.
TableAt(written, HestTableSize) ==
  IF Len(written) >= HestTableSize
    THEN SubSeq(written, Len(written) - HestTableSize + 1, Len(written))
    ELSE Unknown(HestTableSize - Len(written)) \o written

\* Mutant: the copy loop leaves the nodes in the list.
InstallLoopRemoves_Nothing(list) == list

\* The list as the copy loop of InstallHestAcpiTable leaves it: the loop
\* removes the first node until the list is empty.
RECURSIVE InstallLoopRemoves(_)
InstallLoopRemoves(list) ==
  IF IsListEmpty(list) THEN list
  ELSE InstallLoopRemoves(RemoveEntryList(list))

\* What the copy loop of InstallHestAcpiTable frees: the data block of
\* each node it removes.  The node record itself is not freed.
RECURSIVE InstallLoopFrees(_, _)
InstallLoopFrees(list, pool) ==
  IF IsListEmpty(list) THEN pool
  ELSE InstallLoopFrees(RemoveEntryList(list), FreePool(pool, "data"))

\* InstallHestAcpiTable.  allocOk: whether AllocateZeroPool (HestTableSize)
\* succeeds; its result is not tested, so on failure the copies go through
\* NULL (fault: they trap).  acpiStatus: what InstallAcpiTable returns.
\* The final FreePool is given the pointer handed to InstallAcpiTable: it
\* releases the table buffer when that pointer is the buffer's start.
InstallHestAcpiTable(list, pool, allocOk, fault, acpiStatus) ==
  IF IsListEmpty(list)
    THEN [Status |-> EFI_NOT_FOUND, List |-> list, Halted |-> FALSE,
          Called |-> FALSE, Table |-> <<>>, Size |-> 0, Buffer |-> NONE,
          Pool |-> pool, AllocFailed |-> FALSE]
  ELSE
    LET HestTableSize ==
          ReadLE(GetFirstNode(list).HestTableData, HestHdr.Length, 4)
        written == InstallLoop(list, <<>>)
        overrun == Len(written) # HestTableSize
        p1 == Allocated(pool, "table", allocOk)
    IN
    IF (~allocOk \/ overrun) /\ fault
      THEN [Status |-> NONE, List |-> list, Halted |-> TRUE,
            Called |-> FALSE, Table |-> <<>>, Size |-> 0, Buffer |-> NONE,
            Pool |-> p1, AllocFailed |-> ~allocOk]
      ELSE [Status |-> acpiStatus, List |-> InstallLoopRemoves(list),
            Halted |-> FALSE, Called |-> TRUE,
            Table  |-> TableAt(written, HestTableSize),
            Size   |-> HestTableSize,
            Buffer |-> IF allocOk THEN "pool" ELSE "NULL",
            Pool   |-> IF allocOk /\ ~overrun
                         THEN FreePool(InstallLoopFrees(list, p1), "table")
                         ELSE InstallLoopFrees(list, p1),
            AllocFailed |-> ~allocOk]


(***************************************************************************)
(* MmCommunicationDxe : the channel to the Standalone MM environment.      *)
(***************************************************************************)
\* Byte layout of EFI_MM_COMMUNICATE_HEADER: HeaderGuid (16 bytes),
\* MessageLength (UINTN, 8 bytes), then Data.
MmHdr == [HeaderGuid |-> 0, MessageLength |-> 16, Data |-> 24]

\* sizeof (HeaderGuid) and sizeof (MessageLength).
SizeofHeaderGuid == MmHdr.MessageLength - MmHdr.HeaderGuid

SizeofMessageLength == MmHdr.Data - MmHdr.MessageLength

\* Register values.  A function identifier is modelled by its SMCCC function
\* number (the low 16 bits of the identifier); status values are the signed
\* numbers the interface defines.
ARM_SMC_ID_MM_VERSION_AARCH32 == 64
ARM_SMC_ID_MM_COMMUNICATE_AARCH64 == 65
ARM_SVC_ID_FFA_ERROR_AARCH32 == 96
ARM_SVC_ID_FFA_INTERRUPT_AARCH32 == 98
ARM_SVC_ID_FFA_VERSION_AARCH32 == 99
ARM_SVC_ID_FFA_RUN_AARCH32 == 109
ARM_SVC_ID_FFA_MSG_SEND_DIRECT_REQ_AARCH64 == 111
ARM_SVC_ID_FFA_MSG_SEND_DIRECT_RESP == 112

ARM_SMC_MM_RET_SUCCESS == 0
ARM_SVC_SPM_RET_NOT_SUPPORTED == -1
ARM_SMC_MM_RET_INVALID_PARAMS == -2
ARM_SMC_MM_RET_DENIED == -3
ARM_SMC_MM_RET_NO_MEMORY == -5

\* Size of the pre-allocated non-secure buffer (PcdMmBufferSize), which
\* MmCommunication2Initialize stores in mNsCommBuffMemRegion.Length.
PcdMmBufferSize == 35

\* "*(UINTN *)(buf + off) = n", for n below 2^24.
SetField64(buf, off, n) ==
  WriteAt(buf, off, [i \in 1..8 |-> IF i <= 3 THEN Digit(n, i) ELSE 0])

MessageLengthOf(buf) == ReadLE(buf, MmHdr.MessageLength, 8)

\* The first n bytes at a pointer to the allocation mem (what a CopyMem of n
\* bytes reads from it); bytes past the allocation are not the program's.
ReadBytes(mem, n) ==
  [i \in 1..n |-> IF i <= Len(mem) THEN mem[i] ELSE Indeterminate]

\* An optional UINTN *CommSize argument.
NoCommSize == [null |-> TRUE, val |-> 0]

CommSizeOf(n) == [null |-> FALSE, val |-> n]

\* Mutant: the capacity test is dropped, only the zero-length test stays.
MessageLengthRejected_NoCapacity(MessageLength, BufferSize, Length) ==
  MessageLength = 0

\* The test "MessageLength == 0 || BufferSize > mNsCommBuffMemRegion.Length".
MessageLengthRejected(MessageLength, BufferSize, Length) ==
  MessageLength = 0 \/ BufferSize > Length

\* Mutant: the whole capacity is offered as the largest MessageLength.
MaxMessageLength_Capacity(Length) == Length

\* The MessageLength written back when the length check fails:
\* "mNsCommBuffMemRegion.Length - sizeof (HeaderGuid) - sizeof
\* (MessageLength)".
MaxMessageLength(Length) == Length - SizeofHeaderGuid - SizeofMessageLength

\* Parameter checks of MmCommunication2Communicate, up to "MessageLength or
\* CommSize check has failed, return here".  Comm is the caller's buffer.
CommunicateChecks(Phys, Virt, CommSize, Length) ==
  IF Virt.null \/ Phys.null
    THEN [Status |-> EFI_INVALID_PARAMETER, Comm |-> Virt.mem,
          CommSize |-> CommSize, BufferSize |-> 0]
  ELSE
    LET MessageLength == MessageLengthOf(Virt.mem)
        BufferSize == MessageLength + SizeofHeaderGuid + SizeofMessageLength
        bad1 == ~CommSize.null /\ (CommSize.val = 0 \/ CommSize.val > Length)
        cs   == IF bad1 THEN CommSizeOf(Length) ELSE CommSize
        st1  == IF bad1 THEN EFI_BAD_BUFFER_SIZE ELSE EFI_SUCCESS
        st2  == IF ~cs.null /\ cs.val < BufferSize
                  THEN EFI_INVALID_PARAMETER ELSE st1
        bad3 == MessageLengthRejected(MessageLength, BufferSize, Length)
    IN  [Status     |-> IF bad3 THEN EFI_BAD_BUFFER_SIZE ELSE st2,
         Comm       |-> IF bad3
                          THEN SetField64(Virt.mem, MmHdr.MessageLength,
                                          MaxMessageLength(Length))
                          ELSE Virt.mem,
         CommSize   |-> cs,
         BufferSize |-> BufferSize]

\* The function identifier of the data call, by build configuration.
CommunicateFid(ffa) ==
  IF ffa THEN ARM_SVC_ID_FFA_MSG_SEND_DIRECT_REQ_AARCH64
         ELSE ARM_SMC_ID_MM_COMMUNICATE_AARCH64

\* Mutant: an interrupted call is not recognised.
IsInterrupted_Never(ffa, Ret) == FALSE

\* "Loop if the call was interrupted".
IsInterrupted(ffa, Ret) == ffa /\ Ret = ARM_SVC_ID_FFA_INTERRUPT_AARCH32

\* The success test on the value returned in Arg0.
IsComplete(ffa, Ret) ==
  (ffa /\ Ret = ARM_SVC_ID_FFA_MSG_SEND_DIRECT_RESP)
    \/ Ret = ARM_SMC_MM_RET_SUCCESS

\* The switch on the error code.  (The ASSERT (0) of the last two cases is a
\* debug-build diagnostic; the status shown is what the function returns.)
MapSmcError(Ret) ==
  CASE Ret = ARM_SMC_MM_RET_INVALID_PARAMS -> EFI_INVALID_PARAMETER
    [] Ret = ARM_SMC_MM_RET_DENIED         -> EFI_ACCESS_DENIED
    [] Ret = ARM_SMC_MM_RET_NO_MEMORY      -> EFI_OUT_OF_RESOURCES
    [] OTHER                               -> EFI_ACCESS_DENIED

\* MmCommunication2Communicate from the return of ArmCallSmc on.  Comm is the
\* caller's buffer, BufferSize the request size, shm the shared buffer, smc
\* the registers the call returned.
CommunicateAfterSmc(ffa, Comm, BufferSize, shm, smc) ==
  IF IsInterrupted(ffa, smc.Arg0)
    THEN [Resume |-> TRUE, Status |-> NONE, Comm |-> Comm, Copied |-> 0]
  ELSE IF IsComplete(ffa, smc.Arg0)
    THEN LET zeroed == WriteAt(Comm, 0, Zeros(BufferSize))
             size2  == MessageLengthOf(shm) + SizeofHeaderGuid
                         + SizeofMessageLength
         IN  [Resume |-> FALSE, Status |-> EFI_SUCCESS,
              Comm   |-> WriteAt(zeroed, 0, ReadBytes(shm, size2)),
              Copied |-> size2]
  ELSE [Resume |-> FALSE,
        Status |-> MapSmcError(IF ffa THEN smc.Arg2 ELSE smc.Arg0),
        Comm   |-> Comm, Copied |-> 0]

\* A 32-bit register value as its two 16-bit halves.
Word32(hi, lo) == [hi |-> hi, lo |-> lo]

RECURSIVE BitAnd(_, _)
\* Bitwise AND of two naturals.
BitAnd(a, b) ==
  IF a = 0 \/ b = 0 THEN 0
  ELSE (a % 2) * (b % 2) + 2 * BitAnd(a \div 2, b \div 2)

\* 0xEFFF0000 and 0x0000FFFF.
MM_MAJOR_VER_MASK == Word32(61439, 0)

MM_MINOR_VER_MASK == Word32(0, 65535)

\* "((x) & MM_MAJOR_VER_MASK) >> MM_MAJOR_VER_SHIFT": the upper half of the
\* masked word.
MM_MAJOR_VER(x) == BitAnd(x.hi, MM_MAJOR_VER_MASK.hi)

MM_MINOR_VER(x) == BitAnd(x.lo, MM_MINOR_VER_MASK.lo)

MM_CALLER_MAJOR_VER == 1

\* 1 when PcdFfaEnable is 1, else 0.
MM_CALLER_MINOR_VER(ffaEnable) == IF ffaEnable = 1 THEN 1 ELSE 0

ARM_SVC_ID_FFA_SUCCESS_AARCH32 == 97

\* Mutant: the version test accepts any version.
VersionCompatible_Any(ffaEnable, MmVersion) == TRUE

\* The version test of GetMmCompatibility.
VersionCompatible(ffaEnable, MmVersion) ==
  /\ MM_MAJOR_VER(MmVersion) = MM_CALLER_MAJOR_VER
  /\ MM_MINOR_VER(MmVersion) >= MM_CALLER_MINOR_VER(ffaEnable)

\* GetMmCompatibility.  MmVersion is what the version call returned in Arg0;
\* setup is what the four FF-A set-up calls (ID_GET, RXTX_MAP,
\* PARTITION_INFO_GET, RX_RELEASE) returned in Arg0.
GetMmCompatibility(ffaEnable, MmVersion, setup) ==
  LET Status == IF VersionCompatible(ffaEnable, MmVersion)
                  THEN EFI_SUCCESS ELSE EFI_UNSUPPORTED
  IN  IF ffaEnable # 0
        THEN IF \E i \in 1..4 : setup[i] = ARM_SVC_ID_FFA_ERROR_AARCH32
               THEN EFI_UNSUPPORTED
               ELSE EFI_SUCCESS
        ELSE Status

\* The number of GUIDed event groups (ARRAY_SIZE (mGuidedEventGuid)).
NumGuidedEvents == 3

\* MmCommunication2Initialize.  dxe gives the status of AddMemorySpace,
\* SetMemorySpaceAttributes and InstallProtocolInterface, and the index of
\* the CreateEventEx call that fails (0 when none does).
MmCommunication2Initialize(ffaEnable, MmVersion, setup, dxe) ==
  LET compat == GetMmCompatibility(ffaEnable, MmVersion, setup)
      failed == [Status |-> EFI_INVALID_PARAMETER, Installed |-> FALSE,
                 Events |-> FALSE, Length |-> 0]
  IN  IF EFI_ERROR(compat) THEN failed
      ELSE IF EFI_ERROR(dxe.AddMemorySpace)
        THEN [failed EXCEPT !.Length = PcdMmBufferSize]
      ELSE IF EFI_ERROR(dxe.SetMemorySpaceAttributes)
        THEN [failed EXCEPT !.Length = PcdMmBufferSize]
      ELSE IF EFI_ERROR(dxe.InstallProtocolInterface)
        THEN [failed EXCEPT !.Length = PcdMmBufferSize]
      ELSE IF dxe.CreateEventExFails \in 1..NumGuidedEvents
        THEN [failed EXCEPT !.Length = PcdMmBufferSize]
      ELSE [Status |-> EFI_SUCCESS, Installed |-> TRUE, Events |-> TRUE,
            Length |-> PcdMmBufferSize]

(***************************************************************************)
(* HestMmErrorSources : the Standalone MM gateway and its DXE client.      *)
(***************************************************************************)
\* Byte layout of HEST_ERROR_SOURCE_DESC_INFO: the total byte length and the
\* total record count, 32 bits each, then the descriptors.
HestInfo ==
  [ErrSourceDescSize |-> 0, ErrSourceDescCount |-> 4, ErrSourceDescList |-> 8]

HEST_ERROR_SOURCE_DESC_INFO_SIZE == HestInfo.ErrSourceDescList

MM_COMMUNICATE_HEADER_SIZE == MmHdr.Data

\* The GUID byte standing for gMmHestGetErrorSourceInfoGuid.
HestGetErrorSourceInfoGuid == 1

\* An MM driver implementing EDKII_MM_HEST_ERROR_SOURCE_DESC_PROTOCOL: whether
\* MmHandleProtocol finds its interface, and what its
\* GetHestErrorSourceDescriptors answers when Buffer is NULL (Probe) and when
\* it is not (Fetch: Data are the bytes it writes at *Buffer).
Provider(handleOk, probe, fetch) ==
  [HandleOk |-> handleOk, Probe |-> probe, Fetch |-> fetch]

Answer(Status, Length, Count, Data) ==
  [Status |-> Status, Length |-> Length, Count |-> Count, Data |-> Data]

\* A driver that reports (Len(data), count) at probe and writes data and
\* reports the same at fetch.
GoodProvider(data, count) ==
  Provider(TRUE, Answer(EFI_BUFFER_TOO_SMALL, Len(data), count, <<>>),
           Answer(EFI_SUCCESS, Len(data), count, data))

\* Mutant: the lookup reports handles when there are none.
GetHestErrorSourceProtocolHandles_Found(provs) == EFI_BUFFER_TOO_SMALL

\* GetHestErrorSourceProtocolHandles with a NULL handle buffer: MmLocateHandle
\* finds no handle, or reports the size the handles need.
GetHestErrorSourceProtocolHandles(provs) ==
  IF Len(provs) = 0 THEN EFI_NOT_FOUND ELSE EFI_BUFFER_TOO_SMALL

\* Mutant: every answer of a probe is added to the totals.
ProbeReported_Always(Status) == TRUE

\* "if (Status == EFI_BUFFER_TOO_SMALL)" after a call with Buffer NULL.
ProbeReported(Status) == Status = EFI_BUFFER_TOO_SMALL

\* Mutant: a buffer one byte short is accepted.
CommBufferTooSmall_OffByOne(CommBufferSize, TotalSourceLength) ==
  CommBufferSize + 1 < TotalSourceLength

\* "if ((*CommBufferSize) < TotalSourceLength)".
CommBufferTooSmall(CommBufferSize, TotalSourceLength) ==
  CommBufferSize < TotalSourceLength

\* Mutant: the write cursor stays where it is.
AdvancePtr_Stay(ErrorSourcePtr, SourceLength) == ErrorSourcePtr

\* "ErrorSourcePtr += SourceLength".
AdvancePtr(ErrorSourcePtr, SourceLength) == ErrorSourcePtr + SourceLength

\* Mutant: the total is overwritten with each provider's value.
Accumulate_Overwrite(Total, Source) == Source

\* "TotalSourceLength += SourceLength" and "TotalSourceCount += SourceCount".
Accumulate(Total, Source) == Total + Source

\* The first loop of HestErrorSourcesInfoMmiHandler over the handles from
\* index i on.  Calls lists the drivers called, in the order of the calls.
RECURSIVE ProbeLoop(_, _, _)
ProbeLoop(provs, i, tot) ==
  IF i > Len(provs) THEN tot
  ELSE LET p == provs[i]
           called == Append(tot.Calls, i)
       IN  IF ~p.HandleOk THEN ProbeLoop(provs, i + 1, tot)
           ELSE IF ProbeReported(p.Probe.Status)
             THEN ProbeLoop(provs, i + 1,
                    [Length |-> Accumulate(tot.Length, p.Probe.Length),
                     Count  |-> Accumulate(tot.Count, p.Probe.Count),
                     Calls  |-> called])
           ELSE ProbeLoop(provs, i + 1, [tot EXCEPT !.Calls = called])

\* The second loop of HestErrorSourcesInfoMmiHandler over the handles from
\* index i on: buf is the memory at CommBuffer, ptr the offset of
\* ErrorSourcePtr in it, Status the status of the iteration before, calls the
\* drivers called so far, each with the offset it was handed.
RECURSIVE FetchLoop(_, _, _, _, _, _)
FetchLoop(provs, i, buf, ptr, Status, calls) ==
  IF i > Len(provs)
    THEN [Status |-> Status, Buf |-> buf, Ptr |-> ptr, Calls |-> calls]
  ELSE LET p == provs[i]
           called == Append(calls, [Index |-> i, Ptr |-> ptr])
       IN  IF ~p.HandleOk
             THEN FetchLoop(provs, i + 1, buf, ptr, EFI_UNSUPPORTED, calls)
           ELSE IF ~EFI_ERROR(p.Fetch.Status)
             THEN FetchLoop(provs, i + 1, WriteAt(buf, ptr, p.Fetch.Data),
                            AdvancePtr(ptr, p.Fetch.Length), p.Fetch.Status,
                            called)
           ELSE FetchLoop(provs, i + 1, buf, ptr, p.Fetch.Status, called)

\* HestErrorSourcesInfoMmiHandler.  provs are the drivers whose handles
\* MmLocateHandle reports, in its order; buf is the memory at CommBuffer.
HestErrorSourcesInfoMmiHandler(provs, allocOk, locate, buf, CommBufferSize) ==
  LET none   == NoPool({"handles"})
      handle == AllocateZeroPool(none, "handles")
  IN
  IF CommBufferSize < HEST_ERROR_SOURCE_DESC_INFO_SIZE
    THEN [Status |-> EFI_INVALID_PARAMETER, Buf |-> buf,
          Probed |-> <<>>, Fetched |-> <<>>, Pool |-> none]
  ELSE IF GetHestErrorSourceProtocolHandles(provs) = EFI_NOT_FOUND
    THEN [Status |-> EFI_NOT_FOUND, Buf |-> buf,
          Probed |-> <<>>, Fetched |-> <<>>, Pool |-> none]
  ELSE IF ~allocOk
    THEN [Status |-> EFI_OUT_OF_RESOURCES, Buf |-> buf,
          Probed |-> <<>>, Fetched |-> <<>>, Pool |-> none]
  ELSE IF EFI_ERROR(locate)
    THEN [Status |-> locate, Buf |-> buf,
          Probed |-> <<>>, Fetched |-> <<>>,
          Pool |-> FreePool(handle, "handles")]
  ELSE
    LET tot  == ProbeLoop(provs, 1,
                          [Length |-> 0, Count |-> 0, Calls |-> <<>>])
        info == SetField32(SetField32(buf, HestInfo.ErrSourceDescCount,
                                      tot.Count),
                           HestInfo.ErrSourceDescSize, tot.Length)
        TotalSourceLength == tot.Length + HEST_ERROR_SOURCE_DESC_INFO_SIZE
    IN  IF CommBufferTooSmall(CommBufferSize, TotalSourceLength)
          THEN [Status |-> EFI_BUFFER_TOO_SMALL, Buf |-> info,
                Probed |-> tot.Calls, Fetched |-> <<>>,
                Pool |-> FreePool(handle, "handles")]
        ELSE LET f == FetchLoop(provs, 1, info, HestInfo.ErrSourceDescList,
                                EFI_SUCCESS, <<>>)
             IN  [Status |-> f.Status, Buf |-> f.Buf,
                  Probed |-> tot.Calls, Fetched |-> f.Calls,
                  Pool |-> FreePool(handle, "handles")]

MmDispatch(shm, provs, allocOk, locate) ==
  LET r == HestErrorSourcesInfoMmiHandler(
             provs, allocOk, locate, SubSeq(shm, MmHdr.Data + 1, Len(shm)),
             MessageLengthOf(shm))
  IN  [Status |-> r.Status, Shm |-> WriteAt(shm, MmHdr.Data, r.Buf),
       Handler |-> r]

\* The record of one run of the handler: its arguments, what it returned and
\* left at CommBuffer, and the calls it made to the drivers.
MmiRun(allocOk, locate, buf, CommBufferSize, r) ==
  [Called |-> TRUE, AllocOk |-> allocOk, Locate |-> locate,
   CommBufferSize |-> CommBufferSize, In |-> buf, Status |-> r.Status,
   Out |-> r.Buf, Probed |-> r.Probed, Fetched |-> r.Fetched,
   Pool |-> r.Pool, Relay |-> TRUE]

ARM_SVC_SPM_RET_SUCCESS == 0
ARM_SVC_SPM_RET_INVALID_PARAMS == -2
ARM_SVC_SPM_RET_DENIED == -3
ARM_SVC_SPM_RET_NO_MEMORY == -5

\* DelegatedEventLoop from the return of CpuDriverEntryPoint with Status to
\* the event-complete call, as the registers the normal world's SMC returns:
\* the direct response with SvcStatus in Arg4 for FF-A, SvcStatus itself for
\* the legacy interface.
DelegatedEventLoop(FfaEnabled, Status) ==
  LET SvcStatus ==
        CASE Status = EFI_SUCCESS           -> ARM_SVC_SPM_RET_SUCCESS
          [] Status = EFI_INVALID_PARAMETER -> ARM_SVC_SPM_RET_INVALID_PARAMS
          [] Status = EFI_ACCESS_DENIED     -> ARM_SVC_SPM_RET_DENIED
          [] Status = EFI_OUT_OF_RESOURCES  -> ARM_SVC_SPM_RET_NO_MEMORY
          [] Status = EFI_UNSUPPORTED       -> ARM_SVC_SPM_RET_NOT_SUPPORTED
          [] OTHER                          -> ARM_SVC_SPM_RET_NOT_SUPPORTED
  IN  IF FfaEnabled
        THEN [Arg0 |-> ARM_SVC_ID_FFA_MSG_SEND_DIRECT_RESP, Arg2 |-> 0,
              Arg4 |-> SvcStatus]
        ELSE [Arg0 |-> SvcStatus, Arg2 |-> 0, Arg4 |-> 0]

\* GetErrorSourceDescriptors up to its call of Communicate: the status of the
\* size check and the buffer with the communicate header filled in.
GetErrorSourceDescriptors(CommBuffSize, CommBuffer) ==
  IF CommBuffSize < MM_COMMUNICATE_HEADER_SIZE + HEST_ERROR_SOURCE_DESC_INFO_SIZE
    THEN [Status |-> EFI_BAD_BUFFER_SIZE, CommBuffer |-> CommBuffer]
    ELSE [Status |-> EFI_SUCCESS,
          CommBuffer |->
            SetField64(
              WriteAt(CommBuffer, MmHdr.HeaderGuid,
                      [i \in 1..SizeofHeaderGuid |->
                         HestGetErrorSourceInfoGuid]),
              MmHdr.MessageLength,
              CommBuffSize - SizeofHeaderGuid - SizeofMessageLength)]

\* The Info fields of a communicate buffer of the client.
ErrSourceDescSize(Comm) ==
  ReadLE(Comm, MmHdr.Data + HestInfo.ErrSourceDescSize, 4)

ErrSourceDescCount(Comm) ==
  ReadLE(Comm, MmHdr.Data + HestInfo.ErrSourceDescCount, 4)

\* The memory at ErrorSourceDescInfo->ErrSourceDescList.
ErrSourceDescList(Comm) ==
  Ptr(SubSeq(Comm, MmHdr.Data + HestInfo.ErrSourceDescList + 1, Len(Comm)))

(***************************************************************************)
(* State.                                                                  *)
(***************************************************************************)
VARIABLES
  gHestErrorSourceList, \* HestDxe: the list, head node first
  appended,             \* history: the appends that returned EFI_SUCCESS since
                        \* the list was last built from empty
  hestRet,              \* what the last HestDxe protocol call returned and,
                        \* for an install, what it handed to InstallAcpiTable
  heap,                 \* history: the pool allocations HestDxe made and
                        \* freed since an append last found the list empty
  halted,               \* the machine took an exception and stopped
  PcdFfaEnable,         \* build configuration: 1 for FF-A, 0 for legacy SMC
  mm,                   \* MmCommunicationDxe: outcome of the entry point
  mNsCommBuffer,        \* the bytes of the shared non-secure buffer
  call,                 \* the MmCommunication2Communicate call in progress
                        \* (Sent, Interrupts, Resumes and Prior are history:
                        \* SMCs issued with the request identifier, returns
                        \* of FFA_INTERRUPT, SMCs issued with FFA_RUN, and
                        \* the shared buffer as the call found it)
  chanRet,              \* what the last MmCommunication2Communicate returned
  smcIssued,            \* history: a data SMC has been issued
  providers,            \* the MM drivers publishing error sources, in the
                        \* order MmLocateHandle reports them
  client,               \* HestErrorSourceDxe: position and outcome of its
                        \* entry point
  mmi                   \* history: the last run of
                        \* HestErrorSourcesInfoMmiHandler

hestVars == <<gHestErrorSourceList, appended, hestRet, heap>>

chanVars == <<PcdFfaEnable, mm, mNsCommBuffer, call, chanRet, smcIssued>>

passVars == <<providers, client, mmi>>

vars == <<gHestErrorSourceList, appended, hestRet, heap, halted, PcdFfaEnable, mm,
          mNsCommBuffer, call, chanRet, smcIssued, providers, client, mmi>>

\* The most node records, and data blocks, allocated for one list.
MaxAllocs == 3

NoHeap == NoPool({"node", "data", "table"})

\* AllocFailed is history: whether an allocation the call attempted failed.
\* Acpi is what InstallAcpiTable returned.
NoHestRet ==
  [op |-> NONE, Status |-> NONE, Called |-> FALSE, Table |-> <<>>,
   Size |-> 0, Buffer |-> NONE, Acpi |-> NONE, AllocFailed |-> FALSE]

\* Buffers a producer may pass to AddErrorSourceDescriptors.
CallerBuffers == {<<170>>, <<187, 187>>}

\* The acknowledged appends once a call with these arguments returned st,
\* having found the list as list and left it as after.  A header built on an
\* empty list starts a new aggregate.
Appended(list, after, log, st, List, Size, Count, by) ==
  LET base == IF IsListEmpty(list) /\ ~IsListEmpty(after) THEN <<>> ELSE log
      e    == [Data |-> SubSeq(List.mem, 1, Size), Size |-> Size,
               Count |-> Count, By |-> by]
  IN  IF st = EFI_SUCCESS THEN Append(base, e) ELSE base

\* A call of the protocol's AddErrorSourceDescriptors by producer by.
\* The account of allocations an append starts from: a new one when it
\* finds the list empty.
HeapBefore == IF IsListEmpty(gHestErrorSourceList) THEN NoHeap ELSE heap

HestAdd(List, Size, Count, alloc, fault, by) ==
  LET r == AddErrorSourceDescriptor(gHestErrorSourceList, HeapBefore, List,
                                    Size, Count, alloc, fault)
  IN  /\ Len(r.List) <= 1 + MaxDesc
      /\ r.Pool["node"].Allocs <= MaxAllocs
      /\ r.Pool["data"].Allocs <= MaxAllocs
      /\ gHestErrorSourceList' = r.List
      /\ halted' = r.Halted
      /\ heap' = r.Pool
      /\ hestRet' = [NoHestRet EXCEPT !.op = "Add", !.Status = r.Status,
                       !.AllocFailed = r.AllocFailed]
      /\ appended' = Appended(gHestErrorSourceList, r.List, appended,
                              r.Status, List, Size, Count, by)

\* Some producer in the DXE phase calls AddErrorSourceDescriptors.
CallAddErrorSourceDescriptors ==
  /\ ~halted
  /\ \E List \in {Ptr(b) : b \in CallerBuffers} \cup {NULL},
        Count \in 0..MaxCount, alloc \in [1..4 -> BOOLEAN], fault \in BOOLEAN :
       \E Size \in (IF List = NULL THEN 0..1 ELSE 0..Len(List.mem)) :
         HestAdd(List, Size, Count, alloc, fault, "dxe")
  /\ UNCHANGED <<chanVars, passVars>>

\* The platform calls the protocol's InstallHestTable.
CallInstallHestTable ==
  /\ ~halted
  /\ \E allocOk \in BOOLEAN, fault \in BOOLEAN,
        acpiStatus \in {EFI_SUCCESS, EFI_OUT_OF_RESOURCES} :
       LET r == InstallHestAcpiTable(gHestErrorSourceList, heap, allocOk,
                                     fault, acpiStatus)
       IN  /\ UNCHANGED <<chanVars, passVars>>
           /\ gHestErrorSourceList' = r.List
           /\ halted' = r.Halted
           /\ heap' = r.Pool
           /\ hestRet' = [op |-> "Install", Status |-> r.Status,
                          Called |-> r.Called, Table |-> r.Table,
                          Size |-> r.Size, Buffer |-> r.Buffer,
                          Acpi |-> IF r.Called THEN acpiStatus ELSE NONE,
                          AllocFailed |-> r.AllocFailed]
           /\ UNCHANGED appended

InitHest ==
  /\ gHestErrorSourceList = <<>>
  /\ appended = <<>>
  /\ hestRet = NoHestRet
  /\ heap = NoHeap
  /\ halted = FALSE

NoCall ==
  [pc |-> "idle", by |-> NONE, Comm |-> <<>>, CommSize |-> NoCommSize,
   BufferSize |-> 0, Fid |-> 0, Sent |-> 0, Interrupts |-> 0, Resumes |-> 0,
   Prior |-> <<>>]

NoChanRet ==
  [by |-> NONE, Status |-> NONE, Req |-> <<>>, ReqSize |-> NoCommSize,
   Comm |-> <<>>, CommSize |-> NoCommSize, Sent |-> 0, Interrupts |-> 0, Resumes |-> 0,
   Ret |-> [Arg0 |-> 0, Arg2 |-> 0, Arg4 |-> 0], Copied |-> 0,
   Shm |-> <<>>]

NoMm ==
  [Done |-> FALSE, Status |-> NONE, Installed |-> FALSE, Events |-> FALSE,
   Length |-> 0, Version |-> Word32(0, 0)]

InitChan ==
  /\ PcdFfaEnable \in {0, 1}
  /\ mm = NoMm
  /\ mNsCommBuffer = Zeros(PcdMmBufferSize)
  /\ call = NoCall
  /\ chanRet = NoChanRet
  /\ smcIssued = FALSE

\* The client.  Pass is the status AppendMmErrorSources returned, Ret the
\* status the entry point returned.  History: Sizes and Statuses are the
\* buffer sizes of its Communicate calls and what they returned, Reported
\* the size and count it read after the first call, Adds the number of its
\* AddErrorSourceDescriptors calls, Pool its communication buffers.
NoClient ==
  [pc |-> "unstarted", Pass |-> NONE, Ret |-> NONE, Sizes |-> <<>>,
   Statuses |-> <<>>,
   Reported |-> [Read |-> FALSE, Size |-> 0, Count |-> 0], Adds |-> 0,
   Pool |-> NoPool({"probe", "fetch"})]

\* No run of the gateway's handler yet.
NoMmi ==
  [Called |-> FALSE, AllocOk |-> TRUE, Locate |-> EFI_SUCCESS,
   CommBufferSize |-> 0, In |-> <<>>, Status |-> NONE, Out |-> <<>>,
   Probed |-> <<>>, Fetched |-> <<>>, Pool |-> NoPool({"handles"}),
   Relay |-> TRUE]

Init ==
  /\ InitHest
  /\ InitChan
  /\ providers = <<>>
  /\ client = NoClient
  /\ mmi = NoMmi

NextBuilder ==
  \/ CallAddErrorSourceDescriptors
  \/ CallInstallHestTable

SpecBuilder == Init /\ [][NextBuilder]_vars

(***************************************************************************)
(* The table builder with large descriptor lists.                          *)
(***************************************************************************)
\* Sizes of descriptor lists, in bytes, up to the largest below 2^31.
LargeSizes == {1, 2, 65536, 1073741824, 2147483646, 2147483647}

\* AddErrorSourceDescriptor (List, Size, Count) for a valid List, every
\* allocation succeeding, as far as lengths go: the bytes of the descriptors
\* are left out of the new node, whose DataLength is Size.
AddErrorSourceDescriptorLengths(list, Size, Count) ==
  LET hb  == IF IsListEmpty(list)
               THEN BuildHestHeader(list, NoHeap, TRUE, TRUE, FALSE).List
               ELSE list
      l2  == InsertTailList(hb, Node(<<>>, Size))
      hdr == UpdateHestHeader(GetFirstNode(l2).HestTableData, Size, Count)
  IN  WithHeader(l2, hdr)

\* HestTableSize of InstallHestAcpiTable, the size of the buffer it
\* allocates: the four bytes of Header.Length in the head node.
HestTableSize(list) ==
  SubSeq(GetFirstNode(list).HestTableData, HestHdr.Length + 1,
         HestHdr.Length + 4)

\* The 64-bit little-endian word w plus the 32-bit value n.
RECURSIVE AddWord(_, _, _, _)
AddWord(w, n, i, carry) ==
  IF i > Len(w) THEN <<>>
  ELSE LET s == w[i] + (IF i <= 4 THEN Digit(n, i) ELSE 0) + carry
       IN  <<s % 256>> \o AddWord(w, n, i + 1, s \div 256)

\* How far the copy loop of InstallHestAcpiTable advances HestTable, as a
\* 64-bit little-endian word: DataLength bytes for every node.
RECURSIVE CopiedLength(_)
CopiedLength(list) ==
  IF IsListEmpty(list) THEN Zeros(8)
  ELSE AddWord(CopiedLength(RemoveEntryList(list)),
               GetFirstNode(list).DataLength, 1, 0)

\* A producer appends a descriptor list of a large size.
CallAddLargeDescriptors ==
  /\ ~halted
  /\ \E Size \in LargeSizes, Count \in 0..MaxCount :
       \E l \in {AddErrorSourceDescriptorLengths(gHestErrorSourceList, Size,
                                                 Count)} :
         /\ Len(l) <= 1 + MaxDesc
         /\ gHestErrorSourceList' = l
         /\ hestRet' = [NoHestRet EXCEPT !.op = "Add",
                          !.Status = EFI_SUCCESS]
  /\ UNCHANGED <<appended, heap, halted, chanVars, passVars>>

NextLengths == CallAddLargeDescriptors

SpecLengths == Init /\ [][NextLengths]_vars

(***************************************************************************)
(* The channel: actions.                                                   *)
(***************************************************************************)
\* The most FFA_INTERRUPT returns one call receives.
MaxInterrupts == 2

ARM_FFA_SPM_RET_NOT_SUPPORTED == -1
ARM_FFA_SPM_RET_INVALID_PARAMETERS == -2
ARM_FFA_SPM_RET_NO_MEMORY == -3
ARM_FFA_SPM_RET_BUSY == -4
ARM_FFA_SPM_RET_INTERRUPTED == -5
ARM_FFA_SPM_RET_DENIED == -6

\* Version words the secure side may answer with: 1.0, 1.1, 2.0, a word with
\* bit 28 set over major 1, and NOT_SUPPORTED (all ones).
VersionWords ==
  {Word32(1, 0), Word32(1, 1), Word32(2, 0), Word32(4097, 1),
   Word32(65535, 65535)}

DxeSucceeds ==
  [AddMemorySpace |-> EFI_SUCCESS, SetMemorySpaceAttributes |-> EFI_SUCCESS,
   InstallProtocolInterface |-> EFI_SUCCESS, CreateEventExFails |-> 0]

\* What the DXE services answer: every call succeeds, or one of them fails.
DxeOutcomes ==
  {DxeSucceeds,
   [DxeSucceeds EXCEPT !.AddMemorySpace = EFI_ACCESS_DENIED],
   [DxeSucceeds EXCEPT !.SetMemorySpaceAttributes = EFI_UNSUPPORTED],
   [DxeSucceeds EXCEPT !.InstallProtocolInterface = EFI_OUT_OF_RESOURCES]}
    \cup {[DxeSucceeds EXCEPT !.CreateEventExFails = i] :
            i \in 1..NumGuidedEvents}

\* What the four FF-A set-up calls return in Arg0: success, or one of them
\* FFA_ERROR.
FfaSetupOutcomes ==
  {[i \in 1..4 |-> IF i = k THEN ARM_SVC_ID_FFA_ERROR_AARCH32
                            ELSE ARM_SVC_ID_FFA_SUCCESS_AARCH32] :
     k \in 0..4}

\* The DXE dispatcher runs the entry point of MmCommunicationDxe.
EntryMmCommunication2Initialize ==
  /\ ~halted
  /\ ~mm.Done
  /\ \E MmVersion \in VersionWords, dxe \in DxeOutcomes,
        setup \in FfaSetupOutcomes :
       LET r == MmCommunication2Initialize(PcdFfaEnable, MmVersion, setup, dxe)
       IN  mm' = [Done |-> TRUE, Status |-> r.Status,
                  Installed |-> r.Installed, Events |-> r.Events,
                  Length |-> r.Length, Version |-> MmVersion]
  /\ UNCHANGED <<hestVars, halted, PcdFfaEnable, mNsCommBuffer, call, chanRet,
                 smcIssued, passVars>>

\* Mutant: only the header of the request is copied.
CopyRequest_HeaderOnly(shm, Comm, BufferSize) ==
  WriteAt(shm, 0, ReadBytes(Comm, MmHdr.Data))

\* "Copy Communication Payload": the shared buffer, found holding shm, once
\* BufferSize bytes at the caller's buffer have been copied to its start.
CopyRequest(shm, Comm, BufferSize) ==
  WriteAt(shm, 0, ReadBytes(Comm, BufferSize))

\* A call of MmCommunication2Communicate by caller by, up to its first
\* ArmCallSmc or its early return.
Communicate(by, Phys, Virt, CommSize) ==
  LET c == CommunicateChecks(Phys, Virt, CommSize, mm.Length)
  IN  IF EFI_ERROR(c.Status)
        THEN /\ chanRet' = [NoChanRet EXCEPT !.by = by, !.Status = c.Status,
                              !.Req = Virt.mem, !.ReqSize = CommSize,
                              !.Comm = c.Comm, !.CommSize = c.CommSize]
             /\ UNCHANGED <<call, mNsCommBuffer, smcIssued>>
        ELSE /\ mNsCommBuffer' =
                  CopyRequest(mNsCommBuffer, Virt.mem, c.BufferSize)
             /\ call' = [NoCall EXCEPT !.pc = "smc", !.by = by,
                           !.Comm = Virt.mem, !.CommSize = c.CommSize,
                           !.BufferSize = c.BufferSize,
                           !.Fid = CommunicateFid(PcdFfaEnable # 0),
                           !.Sent = 1, !.Prior = mNsCommBuffer]
             /\ smcIssued' = TRUE
             /\ chanRet' = NoChanRet

\* A communicate buffer: GUID bytes, MessageLength, n bytes of data.
CommBuffer(guid, MessageLength, n) ==
  SetField64([i \in 1..(MmHdr.Data + n) |->
                IF i <= SizeofHeaderGuid THEN guid ELSE 170],
             MmHdr.MessageLength, MessageLength)

\* Requests of DXE drivers: data of no length, of one byte, of the largest
\* length the buffer holds and of one byte more.
Requests ==
  {CommBuffer(1, m, m) :
     m \in {0, 1, PcdMmBufferSize - MmHdr.Data, PcdMmBufferSize - MmHdr.Data + 1}}

\* Argument lists of DXE drivers: each request with CommSize omitted, zero,
\* exact, one short and above the buffer's size; and a request with either
\* pointer NULL.
CommunicateArgs ==
  UNION {{[Phys |-> Ptr(b), Virt |-> Ptr(b), CommSize |-> cs] :
            cs \in {NoCommSize, CommSizeOf(0), CommSizeOf(Len(b)),
                    CommSizeOf(Len(b) - 1), CommSizeOf(PcdMmBufferSize + 1)}} :
         b \in Requests}
    \cup {[Phys |-> NULL, Virt |-> Ptr(CommBuffer(1, 1, 1)),
           CommSize |-> NoCommSize],
          [Phys |-> Ptr(CommBuffer(1, 1, 1)), Virt |-> NULL,
           CommSize |-> NoCommSize]}

\* Mutant: a caller may start while a call is in progress.
BootContextFree_Always == TRUE

\* The boot phase is one sequential thread of execution, and the SMC
\* suspends it until the secure side returns: the code of a caller runs
\* only when no call of the channel is in progress.
BootContextFree == call.pc = "idle"

\* A DXE driver calls the protocol's Communicate.
CallCommunicate ==
  /\ ~halted
  /\ mm.Installed
  /\ BootContextFree
  /\ \E a \in CommunicateArgs :
       Communicate("dxe", a.Phys, a.Virt, a.CommSize)
  /\ UNCHANGED <<hestVars, halted, PcdFfaEnable, mm, passVars>>

\* sizeof (EFI_MM_COMMUNICATE_HEADER): the three fields and tail padding.
SizeofMmCommunicateHeader == 32

\* MmGuidedEventNotify: an event group is signalled.
MmGuidedEventNotify ==
  /\ ~halted
  /\ mm.Events
  /\ BootContextFree
  /\ LET Header == [i \in 1..SizeofMmCommunicateHeader |->
                      IF i <= SizeofHeaderGuid THEN 2
                      ELSE IF i = MmHdr.MessageLength + 1 THEN 1
                      ELSE IF i <= MmHdr.Data + 1 THEN 0
                      ELSE Indeterminate]
     IN  Communicate("event", Ptr(Header), Ptr(Header),
                     CommSizeOf(SizeofMmCommunicateHeader))
  /\ UNCHANGED <<hestVars, halted, PcdFfaEnable, mm, passVars>>

\* Mutant: the resume branch clears the shared buffer.
FfaIntrLoop_Clears(shm) == Zeros(Len(shm))

\* The shared buffer, found holding shm, as the caller's code between an
\* FFA_INTERRUPT return and the FFA_RUN that resumes the call leaves it:
\* the branch sets Arg0 and Arg1 and writes nothing else.
FfaIntrLoop(shm) == shm

\* The caller's code once ArmCallSmc returned the registers smc, the shared
\* buffer then holding shm; irq counts the FFA_INTERRUPT returns so far.
SmcReturned(smc, shm, irq) ==
  \E r \in {CommunicateAfterSmc(PcdFfaEnable # 0, call.Comm, call.BufferSize,
                                shm, smc)} :
      /\ mNsCommBuffer' = IF r.Resume THEN FfaIntrLoop(shm) ELSE shm
      /\ IF r.Resume
           THEN /\ call' = [call EXCEPT !.Fid = ARM_SVC_ID_FFA_RUN_AARCH32,
                              !.Resumes = @ + 1, !.Interrupts = irq]
                /\ UNCHANGED chanRet
           ELSE /\ call' = NoCall
                /\ chanRet' = [by |-> call.by, Status |-> r.Status,
                               Req |-> call.Comm, ReqSize |-> call.CommSize,
                               Comm |-> r.Comm, CommSize |-> call.CommSize,
                               Sent |-> call.Sent, Interrupts |-> irq,
                               Resumes |-> call.Resumes, Ret |-> smc,
                               Copied |-> r.Copied, Shm |-> shm]
      /\ UNCHANGED <<hestVars, halted, PcdFfaEnable, mm, smcIssued, providers,
                     client>>

\* The secure partition is pre-empted: the call returns FFA_INTERRUPT (FF-A
\* configuration only).
SmcInterrupted ==
  /\ call.pc = "smc"
  /\ PcdFfaEnable # 0
  /\ call.Interrupts < MaxInterrupts
  /\ SmcReturned([Arg0 |-> ARM_SVC_ID_FFA_INTERRUPT_AARCH32, Arg2 |-> 0,
               Arg4 |-> 0],
                 mNsCommBuffer, call.Interrupts + 1)
  /\ UNCHANGED mmi

\* What a service leaves in the shared buffer: MessageLength m and m bytes.
Response(shm, m) ==
  WriteAt(SetField64(shm, MmHdr.MessageLength, m), MmHdr.Data,
          [i \in 1..m |-> 204])

\* The secure side completes the request and the call returns.
SmcCompleted ==
  /\ call.pc = "smc"
  /\ \E m \in {0, 2, PcdMmBufferSize - MmHdr.Data} :
     \E shm \in {Response(mNsCommBuffer, m)} :
       SmcReturned([Arg0 |-> IF PcdFfaEnable # 0
                               THEN ARM_SVC_ID_FFA_MSG_SEND_DIRECT_RESP
                               ELSE ARM_SMC_MM_RET_SUCCESS,
                    Arg2 |-> 0, Arg4 |-> 0],
                   shm, call.Interrupts)
  /\ UNCHANGED mmi

\* The call returns an error.
SmcFailed ==
  /\ call.pc = "smc"
  /\ \E smc \in
         IF PcdFfaEnable # 0
           THEN [Arg0 : {ARM_SVC_ID_FFA_ERROR_AARCH32},
                 Arg2 : {ARM_FFA_SPM_RET_NOT_SUPPORTED,
                         ARM_FFA_SPM_RET_INVALID_PARAMETERS,
                         ARM_FFA_SPM_RET_NO_MEMORY, ARM_FFA_SPM_RET_BUSY,
                         ARM_FFA_SPM_RET_INTERRUPTED, ARM_FFA_SPM_RET_DENIED},
                 Arg4 : {0}]
           ELSE [Arg0 : {ARM_SVC_SPM_RET_NOT_SUPPORTED,
                         ARM_SMC_MM_RET_INVALID_PARAMS, ARM_SMC_MM_RET_DENIED,
                         ARM_SMC_MM_RET_NO_MEMORY},
                 Arg2 : {0}, Arg4 : {0}] :
       SmcReturned(smc, mNsCommBuffer, call.Interrupts)
  /\ UNCHANGED mmi

NextChannel ==
  \/ EntryMmCommunication2Initialize
  \/ CallCommunicate
  \/ MmGuidedEventNotify
  \/ SmcInterrupted
  \/ SmcCompleted
  \/ SmcFailed

SpecChannel == Init /\ [][NextChannel]_vars

\* The secure side answers every call: each SMC eventually returns, and a
\* call is pre-empted at most MaxInterrupts times.
SpecChannelFair ==
  SpecChannel /\ WF_vars(SmcInterrupted \/ SmcFailed \/ SmcCompleted)

(***************************************************************************)
(* One aggregation pass: gateway, channel, client, builder, installer.     *)
(***************************************************************************)
\* The most MM drivers that publish error sources.
MaxProviders == 2

\* The drivers a platform may carry: two well-behaved ones, one whose
\* interface answers with an error, one that reports two bytes when probed
\* and writes one when fetched.
ProviderKinds ==
  {GoodProvider(<<17>>, 1), GoodProvider(<<34, 34>>, 2),
   Provider(TRUE, Answer(EFI_NOT_FOUND, 0, 0, <<>>),
            Answer(EFI_NOT_FOUND, 0, 0, <<>>)),
   Provider(TRUE, Answer(EFI_BUFFER_TOO_SMALL, 2, 1, <<>>),
            Answer(EFI_SUCCESS, 1, 1, <<68>>))}

ProviderLists == UNION {[1..n -> ProviderKinds] : n \in 0..MaxProviders}

InitPass ==
  /\ InitHest
  /\ InitChan
  /\ providers \in ProviderLists
  /\ client = NoClient
  /\ mmi = NoMmi

\* AppendMmErrorSources returns Pass and the entry point returns Ret; c is
\* the client's record at that point.
ClientDone(c, Pass, Ret) ==
  client' = [c EXCEPT !.pc = "done", !.Pass = Pass, !.Ret = Ret]

\* Mutant: the second buffer has room for one byte more than reported.
FetchBufferSize_OneMore(Size) ==
  MM_COMMUNICATE_HEADER_SIZE + HEST_ERROR_SOURCE_DESC_INFO_SIZE + Size + 1

\* The size of the second communication buffer, Size being the
\* ErrSourceDescSize the first call reported.
FetchBufferSize(Size) ==
  MM_COMMUNICATE_HEADER_SIZE + HEST_ERROR_SOURCE_DESC_INFO_SIZE + Size

\* Mutant: no error of the first call ends the pass.
ProbeCallFailed_Never(Status) == FALSE

\* "if ((EFI_ERROR (Status)) && (Status != EFI_BUFFER_TOO_SMALL))".
ProbeCallFailed(Status) == EFI_ERROR(Status) /\ Status # EFI_BUFFER_TOO_SMALL

\* Mutant: zero totals are not noticed.
NoErrorSources_Never(Size, Count) == FALSE

\* "if ((ErrSourceDescSize == 0) || (ErrSourceDescCount == 0))".
NoErrorSources(Size, Count) == Size = 0 \/ Count = 0

\* The client calls GetErrorSourceDescriptors with its zeroed buffer of
\* CommBufferSize bytes; c is its record at that point, pc where it
\* continues once Communicate has returned.
ClientCommunicate(c, CommBufferSize, pc) ==
  LET g == GetErrorSourceDescriptors(CommBufferSize, Zeros(CommBufferSize))
  IN  IF EFI_ERROR(g.Status)
        THEN /\ chanRet' = [NoChanRet EXCEPT !.by = "client",
                              !.Status = g.Status, !.Req = g.CommBuffer,
                              !.Comm = g.CommBuffer]
             /\ client' = [c EXCEPT !.pc = pc]
             /\ UNCHANGED <<call, mNsCommBuffer, smcIssued>>
        ELSE /\ Communicate("client", Ptr(g.CommBuffer), Ptr(g.CommBuffer),
                            NoCommSize)
             /\ client' = [c EXCEPT !.pc = pc,
                             !.Sizes = Append(@, CommBufferSize)]

\* HestErrorSourceInitialize, up to the first Communicate of
\* AppendMmErrorSources.  The HEST table protocol is there; the MM
\* communication protocol is located when it was installed.
HestErrorSourceInitialize ==
  /\ ~halted
  /\ mm.Done
  /\ client.pc = "unstarted"
  /\ BootContextFree
  /\ IF ~mm.Installed
       THEN /\ ClientDone(client, NONE, EFI_NOT_FOUND)
            /\ UNCHANGED <<call, chanRet, mNsCommBuffer, smcIssued>>
       ELSE \E allocOk \in BOOLEAN :
              IF ~allocOk
                THEN /\ ClientDone(client, EFI_OUT_OF_RESOURCES, EFI_SUCCESS)
                     /\ UNCHANGED <<call, chanRet, mNsCommBuffer, smcIssued>>
                ELSE ClientCommunicate(
                       [client EXCEPT
                          !.Pool = AllocateZeroPool(@, "probe")],
                       MM_COMMUNICATE_HEADER_SIZE
                         + HEST_ERROR_SOURCE_DESC_INFO_SIZE, "probe")
  /\ UNCHANGED <<hestVars, halted, PcdFfaEnable, mm, providers, mmi>>

\* AppendMmErrorSources from the return of the first Communicate to the
\* second one.
AppendMmErrorSourcesAfterProbe ==
  /\ ~halted
  /\ client.pc = "probe"
  /\ call.pc = "idle"
  /\ LET Status == chanRet.Status
         Size   == ErrSourceDescSize(chanRet.Comm)
         Count  == ErrSourceDescCount(chanRet.Comm)
         c1     == [client EXCEPT !.Statuses = Append(@, Status)]
         freed  == [c1 EXCEPT !.Pool = FreePool(@, "probe")]
         c2     == [freed EXCEPT !.Reported = [Read |-> TRUE, Size |-> Size,
                                                 Count |-> Count]]
     IN  IF ProbeCallFailed(Status)
           THEN /\ ClientDone(freed, Status, EFI_SUCCESS)
                /\ UNCHANGED <<call, chanRet, mNsCommBuffer, smcIssued>>
         ELSE IF NoErrorSources(Size, Count)
           THEN /\ ClientDone(c2, EFI_NOT_FOUND, EFI_SUCCESS)
                /\ UNCHANGED <<call, chanRet, mNsCommBuffer, smcIssued>>
         ELSE \E allocOk \in BOOLEAN :
                IF ~allocOk
                  THEN /\ ClientDone(c2, EFI_OUT_OF_RESOURCES, EFI_SUCCESS)
                       /\ UNCHANGED <<call, chanRet, mNsCommBuffer, smcIssued>>
                  ELSE ClientCommunicate(
                         [c2 EXCEPT !.Pool = AllocateZeroPool(@, "fetch")],
                         FetchBufferSize(Size), "fetch")
  /\ UNCHANGED <<hestVars, halted, PcdFfaEnable, mm, providers, mmi>>

\* AppendMmErrorSources from the return of the second Communicate on, and
\* the return of HestErrorSourceInitialize.
AppendMmErrorSourcesAfterFetch ==
  /\ ~halted
  /\ client.pc = "fetch"
  /\ call.pc = "idle"
  /\ LET c1    == [client EXCEPT !.Statuses = Append(@, chanRet.Status)]
         freed == [c1 EXCEPT !.Pool = FreePool(@, "fetch")]
     IN  IF EFI_ERROR(chanRet.Status)
           THEN /\ ClientDone(freed, chanRet.Status, EFI_SUCCESS)
                /\ UNCHANGED <<hestVars, halted>>
           ELSE \E alloc \in [1..4 -> BOOLEAN], fault \in BOOLEAN :
                  /\ HestAdd(ErrSourceDescList(chanRet.Comm),
                             ErrSourceDescSize(chanRet.Comm),
                             ErrSourceDescCount(chanRet.Comm), alloc, fault,
                             "mm")
                  /\ ClientDone(IF halted' THEN [c1 EXCEPT !.Adds = @ + 1]
                                           ELSE [freed EXCEPT !.Adds = @ + 1],
                                hestRet'.Status, EFI_SUCCESS)
  /\ UNCHANGED <<chanVars, providers, mmi>>

\* What GetHestErrorSourceProtocolHandles returns when called with the
\* allocated handle buffer.
LocateOutcomes == {EFI_SUCCESS, EFI_NOT_FOUND}

\* The secure side serves the request: the MM core dispatches it to the
\* gateway's handler, and the event-complete call returns the SMC.  The MM
\* core's entry point reports the handler's status to DelegatedEventLoop or
\* reports success.
MmServes ==
  /\ call.pc = "smc"
  /\ \E allocOk \in BOOLEAN, locate \in LocateOutcomes, relay \in BOOLEAN :
       \E d \in {MmDispatch(mNsCommBuffer, providers, allocOk, locate)} :
         /\ SmcReturned(DelegatedEventLoop(PcdFfaEnable # 0,
                                           IF relay THEN d.Status
                                                    ELSE EFI_SUCCESS),
                        d.Shm, call.Interrupts)
         /\ mmi' = [MmiRun(allocOk, locate,
                           SubSeq(mNsCommBuffer, MmHdr.Data + 1,
                                  Len(mNsCommBuffer)),
                           MessageLengthOf(mNsCommBuffer), d.Handler)
                      EXCEPT !.Relay = relay]

\* The platform calls InstallHestTable once the client's entry point has
\* returned.
InstallAfterPass ==
  /\ client.pc = "done"
  /\ CallInstallHestTable

NextPass ==
  \/ EntryMmCommunication2Initialize
  \/ HestErrorSourceInitialize
  \/ SmcInterrupted
  \/ MmServes
  \/ SmcFailed
  \/ AppendMmErrorSourcesAfterProbe
  \/ AppendMmErrorSourcesAfterFetch
  \/ InstallAfterPass

SpecPass == InitPass /\ [][NextPass]_vars

(***************************************************************************)
(* Repeated requests to the gateway.                                       *)
(***************************************************************************)
\* The sizes of the buffers requests are sent in: the header and the info
\* block, with room for no descriptor byte up to the most the shared buffer
\* holds.
EnvelopeSizes ==
  (MM_COMMUNICATE_HEADER_SIZE + HEST_ERROR_SOURCE_DESC_INFO_SIZE)
    ..PcdMmBufferSize

\* A client calls GetErrorSourceDescriptors with a zeroed buffer of one of
\* these sizes, however many times.
CallGetErrorSourceDescriptors ==
  /\ ~halted
  /\ mm.Installed
  /\ BootContextFree
  /\ \E CommBufferSize \in EnvelopeSizes :
       \E g \in {GetErrorSourceDescriptors(CommBufferSize,
                                          Zeros(CommBufferSize))} :
         Communicate("client", Ptr(g.CommBuffer), Ptr(g.CommBuffer),
                     NoCommSize)
  /\ UNCHANGED <<hestVars, halted, PcdFfaEnable, mm, passVars>>

NextResend ==
  \/ EntryMmCommunication2Initialize
  \/ CallGetErrorSourceDescriptors
  \/ MmServes

SpecResend == InitPass /\ [][NextResend]_vars

(***************************************************************************)
(* The gateway's handler on its own.                                       *)
(***************************************************************************)
\* Drivers the handler may meet: those of ProviderKinds, one whose handle
\* MmHandleProtocol does not resolve, one that reports no bytes and no
\* records, one that fails having set its length and count, and one that
\* writes more when asked for its records than it reported when asked first.
HandlerKinds ==
  ProviderKinds
    \cup {Provider(FALSE, Answer(EFI_BUFFER_TOO_SMALL, 1, 1, <<>>),
                   Answer(EFI_SUCCESS, 1, 1, <<85>>)),
          Provider(TRUE, Answer(EFI_BUFFER_TOO_SMALL, 0, 0, <<>>),
                   Answer(EFI_SUCCESS, 0, 0, <<>>)),
          Provider(TRUE, Answer(EFI_DEVICE_ERROR, 1, 1, <<>>),
                   Answer(EFI_DEVICE_ERROR, 1, 1, <<>>)),
          Provider(TRUE, Answer(EFI_BUFFER_TOO_SMALL, 1, 1, <<>>),
                   Answer(EFI_SUCCESS, 2, 1, <<102, 102>>))}

HandlerProviderLists ==
  UNION {[1..n -> HandlerKinds] : n \in 0..MaxProviders}

\* The memory at CommBuffer when the handler is entered: room for the info
\* block, two bytes for each driver and one byte more.
CommMemory ==
  [i \in 1..(HEST_ERROR_SOURCE_DESC_INFO_SIZE + 2 * MaxProviders + 1) |-> 170]

InitHandler ==
  /\ InitHest
  /\ InitChan
  /\ providers \in HandlerProviderLists
  /\ client = NoClient
  /\ mmi = NoMmi

\* The MM core calls the handler with a CommBufferSize of its caller's
\* choice.
MmiHandlerEntry ==
  /\ \E allocOk \in BOOLEAN, locate \in LocateOutcomes,
        CommBufferSize \in 0..Len(CommMemory) :
       \E r \in {HestErrorSourcesInfoMmiHandler(providers, allocOk, locate,
                                                CommMemory, CommBufferSize)} :
         mmi' = MmiRun(allocOk, locate, CommMemory, CommBufferSize, r)
  /\ UNCHANGED <<hestVars, halted, chanVars, providers, client>>

NextHandler == MmiHandlerEntry

SpecHandler == InitHandler /\ [][NextHandler]_vars

(***************************************************************************)
(* Table builder and installer: properties.                                *)
(***************************************************************************)
Sizes(log) == [i \in 1..Len(log) |-> log[i].Size]

Counts(log) == [i \in 1..Len(log) |-> log[i].Count]

Blocks(log) == [i \in 1..Len(log) |-> log[i].Data]

HeadData == GetFirstNode(gHestErrorSourceList).HestTableData

\* C1 (I1): whenever the list is non-empty, the head node's Header.Length is
\* the header size plus the sum of the sizes of the appends that returned
\* EFI_SUCCESS, whatever mix of successful and failed calls came before.
C1_HeaderLength ==
  ~IsListEmpty(gHestErrorSourceList) =>
    ReadLE(HeadData, HestHdr.Length, 4) = HestHdr.Size + SumSeq(Sizes(appended))

C1_Witness ==
  /\ Len(gHestErrorSourceList) = 3
  /\ hestRet.op = "Add"
  /\ hestRet.Status = EFI_OUT_OF_RESOURCES
  /\ SumSeq(Sizes(appended)) = 3

\* C2 (I2): whenever the list is non-empty, the header's ErrorSourceCount is
\* the sum of the counts of the appends that returned EFI_SUCCESS; it is 0
\* when the header is created and no failed append changes it.
C2_ErrorSourceCount ==
  ~IsListEmpty(gHestErrorSourceList) =>
    ReadLE(HeadData, HestHdr.ErrorSourceCount, 4) = SumSeq(Counts(appended))

C2_Witness ==
  /\ Len(gHestErrorSourceList) = 3
  /\ hestRet.op = "Add"
  /\ hestRet.Status = EFI_INVALID_PARAMETER
  /\ SumSeq(Counts(appended)) = 2

\* C4 (P4, I5): an install that finds no successfully appended descriptor
\* (empty list, or header only) returns EFI_NOT_FOUND and does not call
\* InstallAcpiTable.
C4_InstallNeedsDescriptor ==
  (hestRet.op = "Install" /\ appended = <<>> /\ ~halted) =>
    (hestRet.Status = EFI_NOT_FOUND /\ ~hestRet.Called)

\* C5: after k >= 1 successful appends, the buffer handed to InstallAcpiTable
\* is the header bytes followed by block 1 .. block k in append order, and
\* the length handed over is the header's Header.Length.
C5_InstalledLayout ==
  (hestRet.op = "Install" /\ hestRet.Called /\ appended # <<>>) =>
    /\ Len(hestRet.Table) = hestRet.Size
    /\ SubSeq(hestRet.Table, 1, 4) = HestSignature
    /\ ReadLE(hestRet.Table, HestHdr.Length, 4) = hestRet.Size
    /\ hestRet.Size = HestHdr.Size + SumSeq(Sizes(appended))
    /\ SubSeq(hestRet.Table, HestHdr.Size + 1, Len(hestRet.Table))
         = Flatten(Blocks(appended))

C5_Witness ==
  /\ hestRet.op = "Install"
  /\ hestRet.Called
  /\ Len(appended) = 2
  /\ appended[1].Data # appended[2].Data

\* C6 (I3): whenever the list is non-empty its first node is the header node
\* and the nodes after it are exactly the appended descriptor blocks in
\* arrival order: nothing is ever placed before the header and there is no
\* second header.
C6_HeaderFirst ==
  ~IsListEmpty(gHestErrorSourceList) =>
    /\ GetFirstNode(gHestErrorSourceList).DataLength = HestHdr.Size
    /\ Len(HeadData) = HestHdr.Size
    /\ SubSeq(HeadData, 1, 4) = HestSignature
    /\ Len(gHestErrorSourceList) = 1 + Len(appended)
    /\ \A i \in 1..Len(appended) :
         /\ gHestErrorSourceList[i + 1].HestTableData = appended[i].Data
         /\ gHestErrorSourceList[i + 1].DataLength = appended[i].Size

C6_Witness ==
  /\ Len(gHestErrorSourceList) = 3
  /\ gHestErrorSourceList[2].HestTableData
       # gHestErrorSourceList[3].HestTableData

\* C7: an append that returns an error leaves the list (its nodes, header
\* included) exactly as it found it.
C7_AppendAllOrNothing ==
  [][(hestRet'.op = "Add" /\ hestRet'.Status # EFI_SUCCESS /\ ~halted')
       => gHestErrorSourceList' = gHestErrorSourceList]_vars

\* The allocations for purpose t that were made and not freed.
Live(pool, t) == pool[t].Allocs - pool[t].Frees

\* C27: once InstallHestAcpiTable has returned on a non-empty list, nothing
\* the builder allocated for that list is still allocated: no node record,
\* no data block, and not the table buffer.
C27_InstallReleasesAll ==
  (hestRet.op = "Install" /\ hestRet.Called /\ ~halted) =>
    \A t \in {"node", "data", "table"} : Live(heap, t) = 0

\* C28: InstallHestAcpiTable returns what InstallAcpiTable returned, a
\* failure as well as EFI_SUCCESS, and in both cases the table buffer it
\* allocated has been freed exactly once.
C28_PublishStatusReturned ==
  (hestRet.op = "Install" /\ hestRet.Called /\ hestRet.Buffer = "pool") =>
    /\ hestRet.Status = hestRet.Acpi
    /\ heap["table"].Allocs = 1
    /\ heap["table"].Frees = 1

C28_Witness ==
  /\ hestRet.op = "Install"
  /\ hestRet.Called
  /\ hestRet.Buffer = "pool"
  /\ hestRet.Acpi = EFI_OUT_OF_RESOURCES
  /\ ~halted

\* C30: a call of the builder or the installer in which a pool allocation
\* fails does not fault, returns EFI_OUT_OF_RESOURCES, leaves allocated
\* only what it linked into the list, and, when it is an install, does not
\* call InstallAcpiTable.
C30_AllocationFailureIsAnError ==
  [][hestRet'.AllocFailed =>
       /\ ~halted'
       /\ hestRet'.Status = EFI_OUT_OF_RESOURCES
       /\ \A t \in {"node", "data"} :
            Live(heap', t) - Live(HeapBefore, t)
              = Len(gHestErrorSourceList') - Len(gHestErrorSourceList)
       /\ Live(heap', "table") = 0
       /\ hestRet'.op = "Install" => ~hestRet'.Called]_vars

(***************************************************************************)
(* One aggregation pass: properties.                                       *)
(***************************************************************************)
\* Every driver reports the same (bytes, records) when probed and when
\* fetched, writes that many bytes, and succeeds.
AllConsistent(provs) ==
  \A i \in 1..Len(provs) :
    /\ provs[i].HandleOk
    /\ provs[i].Probe.Status = EFI_BUFFER_TOO_SMALL
    /\ provs[i].Fetch.Status = EFI_SUCCESS
    /\ provs[i].Fetch.Length = provs[i].Probe.Length
    /\ provs[i].Fetch.Count = provs[i].Probe.Count
    /\ Len(provs[i].Fetch.Data) = provs[i].Probe.Length

ProviderBytes(provs) == [i \in 1..Len(provs) |-> provs[i].Probe.Length]

ProviderCounts(provs) == [i \in 1..Len(provs) |-> provs[i].Probe.Count]

ProviderData(provs) == [i \in 1..Len(provs) |-> provs[i].Fetch.Data]

\* The client's pass returned EFI_SUCCESS and the install that followed it
\* had InstallAcpiTable accept the table.
PassPublished ==
  /\ client.pc = "done"
  /\ client.Pass = EFI_SUCCESS
  /\ hestRet.op = "Install"
  /\ hestRet.Called
  /\ hestRet.Status = EFI_SUCCESS

\* C3 (P1): with N drivers that each report the same (b_i bytes, c_i records)
\* at probe and at fetch and all succeed, a pass handler -> channel -> client
\* -> AddErrorSourceDescriptors -> InstallHestAcpiTable that succeeds
\* publishes a table of length header size + sum of b_i whose
\* ErrorSourceCount is the sum of c_i, holding the drivers' bytes in order.
C3_EndToEnd ==
  (AllConsistent(providers) /\ PassPublished) =>
    /\ hestRet.Size = HestHdr.Size + SumSeq(ProviderBytes(providers))
    /\ Len(hestRet.Table) = hestRet.Size
    /\ ReadLE(hestRet.Table, HestHdr.Length, 4)
         = HestHdr.Size + SumSeq(ProviderBytes(providers))
    /\ ReadLE(hestRet.Table, HestHdr.ErrorSourceCount, 4)
         = SumSeq(ProviderCounts(providers))
    /\ SubSeq(hestRet.Table, HestHdr.Size + 1, Len(hestRet.Table))
         = Flatten(ProviderData(providers))

C3_Witness ==
  /\ AllConsistent(providers)
  /\ PassPublished
  /\ Len(providers) = 2
  /\ providers[1] # providers[2]
  /\ hestRet.Size = HestHdr.Size + 3

\* C15: with no driver registered, a run of the handler returns
\* EFI_NOT_FOUND, calls no driver and leaves the communication buffer as it
\* was; nothing is appended to the list, and an install makes no
\* InstallAcpiTable call and returns EFI_NOT_FOUND.
C15_NoProviders ==
  Len(providers) = 0 =>
    /\ mmi.Called =>
         /\ mmi.Status = EFI_NOT_FOUND
         /\ mmi.Probed = <<>>
         /\ mmi.Fetched = <<>>
         /\ mmi.Out = mmi.In
    /\ client.pc = "done" => EFI_ERROR(client.Pass)
    /\ appended = <<>>
    /\ IsListEmpty(gHestErrorSourceList)
    /\ hestRet.op # "Add"
    /\ hestRet.op = "Install" =>
         (~hestRet.Called /\ hestRet.Status = EFI_NOT_FOUND)

C15_Witness ==
  /\ Len(providers) = 0
  /\ mmi.Called
  /\ mmi.Status = EFI_NOT_FOUND
  /\ client.pc = "done"
  /\ client.Pass = EFI_NOT_FOUND
  /\ hestRet.op = "Install"
  /\ hestRet.Status = EFI_NOT_FOUND
(***************************************************************************)
(* The client: properties.                                                 *)
(***************************************************************************)
\* What the first buffer holds: the header and the info block.
ProbeBufferSize == MM_COMMUNICATE_HEADER_SIZE + HEST_ERROR_SOURCE_DESC_INFO_SIZE

\* C23: a pass of the client issues at most two calls on the channel.  The
\* first carries an envelope whose payload is the info block alone.  A
\* second one is issued only when the first returned success or
\* EFI_BUFFER_TOO_SMALL and reported a non-zero size and count, and then on
\* a newly allocated buffer of exactly header + info block + the reported
\* size, the first buffer having been freed.
C23_AtMostTwoCalls ==
  /\ Len(client.Sizes) <= 2
  /\ Len(client.Sizes) >= 1 => client.Sizes[1] = ProbeBufferSize
  /\ Len(client.Sizes) = 2 =>
       /\ client.Statuses[1] \in {EFI_SUCCESS, EFI_BUFFER_TOO_SMALL}
       /\ client.Reported.Read
       /\ client.Reported.Size # 0
       /\ client.Reported.Count # 0
       /\ client.Sizes[2] = ProbeBufferSize + client.Reported.Size
       /\ client.Pool["probe"].Frees = 1
       /\ client.Pool["fetch"].Allocs = 1

C23_Witness == client.pc = "done" /\ Len(client.Sizes) = 2

\* C24: when the first call did not fail and the info block then holds a
\* zero size or a zero count, the pass returns EFI_NOT_FOUND without a
\* second call and without calling AddErrorSourceDescriptors.
C24_ZeroTotalsEndPass ==
  (client.Reported.Read
     /\ (client.Reported.Size = 0 \/ client.Reported.Count = 0)) =>
    /\ client.pc = "done"
    /\ client.Pass = EFI_NOT_FOUND
    /\ Len(client.Sizes) = 1
    /\ client.Adds = 0

C24_Witness ==
  /\ client.Reported.Read
  /\ client.Reported.Size = 0
  /\ client.Statuses[1] = EFI_SUCCESS

\* C25: an error of the first call other than EFI_BUFFER_TOO_SMALL, and any
\* error of the second call, is what the pass returns, and
\* AddErrorSourceDescriptors is not called.  It is called at most once in a
\* pass, and only after the second call returned success.
C25_ErrorsPassThrough ==
  /\ (Len(client.Statuses) >= 1 /\ EFI_ERROR(client.Statuses[1])
        /\ client.Statuses[1] # EFI_BUFFER_TOO_SMALL) =>
       /\ client.pc = "done"
       /\ client.Pass = client.Statuses[1]
       /\ Len(client.Sizes) = 1
       /\ client.Adds = 0
  /\ (Len(client.Statuses) = 2 /\ EFI_ERROR(client.Statuses[2])) =>
       /\ client.pc = "done"
       /\ client.Pass = client.Statuses[2]
       /\ client.Adds = 0
  /\ client.Adds <= 1
  /\ client.Adds = 1 =>
       Len(client.Statuses) = 2 /\ client.Statuses[2] = EFI_SUCCESS

C25_Witness ==
  /\ Len(client.Statuses) = 1
  /\ EFI_ERROR(client.Statuses[1])
  /\ client.pc = "done"

C25_WitnessFetch == Len(client.Statuses) = 2 /\ EFI_ERROR(client.Statuses[2])

\* The communication buffers of a pass that has returned: none is still
\* allocated and none was freed more often than allocated.
ClientBuffersFreed ==
  \A t \in {"probe", "fetch"} :
    client.Pool[t].Allocs = client.Pool[t].Frees /\ client.Pool[t].Allocs <= 1

\* C29: when AppendMmErrorSources has returned, each communication buffer
\* it allocated has been freed exactly once; when the gateway's handler has
\* returned, the handle buffer it allocated has been freed exactly once.
C29_BuffersFreedOnce ==
  /\ (client.pc = "done" /\ ~halted) => ClientBuffersFreed
  /\ mmi.Called =>
       /\ mmi.Pool["handles"].Allocs = mmi.Pool["handles"].Frees
       /\ mmi.Pool["handles"].Allocs <= 1

C29_Witness ==
  /\ client.pc = "done"
  /\ client.Pool["probe"].Frees = 1
  /\ client.Pool["fetch"].Frees = 1
  /\ EFI_ERROR(client.Pass)
  /\ mmi.Called
  /\ mmi.Pool["handles"].Frees = 1
  /\ EFI_ERROR(mmi.Status)

\* C26: with both protocols located, HestErrorSourceInitialize returns
\* EFI_SUCCESS whatever AppendMmErrorSources returned, and a pass that
\* failed leaves the table builder's list as it was before the pass, which
\* here is empty.
C26_FailedPassHarmless ==
  (~halted /\ client.pc = "done" /\ client.Pass # NONE
     /\ EFI_ERROR(client.Pass) /\ hestRet.op # "Install") =>
    /\ client.Ret = EFI_SUCCESS
    /\ gHestErrorSourceList = <<>>

(***************************************************************************)
(* The gateway's handler: properties.                                      *)
(***************************************************************************)
\* A driver whose probe adds to the totals: its handle resolves and its
\* answer to a NULL buffer is EFI_BUFFER_TOO_SMALL.
Contributes(p) == p.HandleOk /\ p.Probe.Status = EFI_BUFFER_TOO_SMALL

\* The totals over the drivers that contribute.
ProbedBytes(provs) ==
  SumSeq([i \in 1..Len(provs) |->
            IF Contributes(provs[i]) THEN provs[i].Probe.Length ELSE 0])

ProbedCount(provs) ==
  SumSeq([i \in 1..Len(provs) |->
            IF Contributes(provs[i]) THEN provs[i].Probe.Count ELSE 0])

\* The handler got as far as its probe loop.
MmiProbed ==
  /\ mmi.Called
  /\ mmi.CommBufferSize >= HEST_ERROR_SOURCE_DESC_INFO_SIZE
  /\ Len(providers) > 0
  /\ mmi.AllocOk
  /\ mmi.Locate = EFI_SUCCESS

\* The handler got as far as its fetch loop.
MmiFetched ==
  /\ MmiProbed
  /\ mmi.CommBufferSize
       >= HEST_ERROR_SOURCE_DESC_INFO_SIZE + ProbedBytes(providers)

\* C16: when handles exist but the probe loop totals no bytes or no
\* records, the handler returns EFI_NOT_FOUND.
C16_ZeroTotalsNotFound ==
  (MmiProbed /\ (ProbedBytes(providers) = 0 \/ ProbedCount(providers) = 0)) =>
    mmi.Status = EFI_NOT_FOUND

\* C17: with CommBufferSize below the info-block size plus the probed total
\* the handler never returns EFI_SUCCESS; below the info-block size it
\* returns EFI_INVALID_PARAMETER and writes nothing; from the info-block
\* size on (the probe having run) it returns EFI_BUFFER_TOO_SMALL with the
\* probed byte total and record total in the info block, nothing else
\* written, and no driver called with a buffer.
C17_SmallBufferFails ==
  (mmi.Called
     /\ mmi.CommBufferSize
          < HEST_ERROR_SOURCE_DESC_INFO_SIZE + ProbedBytes(providers)) =>
    /\ mmi.Status # EFI_SUCCESS
    /\ mmi.CommBufferSize < HEST_ERROR_SOURCE_DESC_INFO_SIZE =>
         (mmi.Status = EFI_INVALID_PARAMETER /\ mmi.Out = mmi.In)
    /\ MmiProbed =>
         /\ mmi.Status = EFI_BUFFER_TOO_SMALL
         /\ ReadLE(mmi.Out, HestInfo.ErrSourceDescSize, 4)
              = ProbedBytes(providers)
         /\ ReadLE(mmi.Out, HestInfo.ErrSourceDescCount, 4)
              = ProbedCount(providers)
         /\ SubSeq(mmi.Out, HestInfo.ErrSourceDescList + 1, Len(mmi.Out))
              = SubSeq(mmi.In, HestInfo.ErrSourceDescList + 1, Len(mmi.In))
         /\ mmi.Fetched = <<>>

C17_Witness ==
  /\ MmiProbed
  /\ Len(providers) = 2
  /\ ProbedBytes(providers) = 3
  /\ ProbedCount(providers) = 3
  /\ mmi.CommBufferSize = HEST_ERROR_SOURCE_DESC_INFO_SIZE + 2
  /\ mmi.Status = EFI_BUFFER_TOO_SMALL

\* The indexes from i on of the drivers whose handle resolves, in order.
RECURSIVE Resolved(_, _)
Resolved(provs, i) ==
  IF i > Len(provs) THEN <<>>
  ELSE (IF provs[i].HandleOk THEN <<i>> ELSE <<>>) \o Resolved(provs, i + 1)

\* C18: the probe loop calls each driver whose handle resolves once, with a
\* NULL buffer, in discovery order, whatever the drivers before it
\* answered; the totals it leaves in the info block are the sums over the
\* drivers that answered EFI_BUFFER_TOO_SMALL, a driver whose handle does
\* not resolve or that answers anything else adding nothing.
C18_ProbeAll ==
  MmiProbed =>
    /\ mmi.Probed = Resolved(providers, 1)
    /\ ReadLE(mmi.Out, HestInfo.ErrSourceDescSize, 4) = ProbedBytes(providers)
    /\ ReadLE(mmi.Out, HestInfo.ErrSourceDescCount, 4)
         = ProbedCount(providers)

C18_Witness ==
  /\ MmiProbed
  /\ Len(providers) = 2
  /\ providers[1].HandleOk
  /\ providers[1].Probe.Status = EFI_DEVICE_ERROR
  /\ providers[1].Probe.Length = 1
  /\ Contributes(providers[2])
  /\ mmi.Probed = <<1, 2>>
  /\ ReadLE(mmi.Out, HestInfo.ErrSourceDescSize, 4) = 2
  /\ ReadLE(mmi.Out, HestInfo.ErrSourceDescCount, 4) = 2

\* A driver whose fetch writes: its handle resolves and its answer to a
\* buffer is a success.
Writes(p) == p.HandleOk /\ ~EFI_ERROR(p.Fetch.Status)

\* The bytes the drivers from i on write, in discovery order.
RECURSIVE FetchedData(_, _)
FetchedData(provs, i) ==
  IF i > Len(provs) THEN <<>>
  ELSE (IF Writes(provs[i]) THEN provs[i].Fetch.Data ELSE <<>>)
         \o FetchedData(provs, i + 1)

\* The calls of the fetch loop from driver i on, the cursor being at ptr.
RECURSIVE FetchedCalls(_, _, _)
FetchedCalls(provs, i, ptr) ==
  IF i > Len(provs) THEN <<>>
  ELSE IF ~provs[i].HandleOk THEN FetchedCalls(provs, i + 1, ptr)
  ELSE <<[Index |-> i, Ptr |-> ptr]>>
         \o FetchedCalls(provs, i + 1,
                         IF Writes(provs[i])
                           THEN ptr + Len(provs[i].Fetch.Data) ELSE ptr)

\* C19: the fetch loop calls the drivers in discovery order, the first at
\* the byte after the info block and each next one at the byte after what
\* the successful drivers before it wrote, so that the buffer behind the
\* info block holds the drivers' bytes one after the other in that order
\* and is untouched beyond them.
C19_FetchContiguous ==
  MmiFetched =>
    LET data == FetchedData(providers, 1)
        from == HestInfo.ErrSourceDescList
    IN  /\ mmi.Fetched = FetchedCalls(providers, 1, from)
        /\ SubSeq(mmi.Out, from + 1, from + Len(data)) = data
        /\ SubSeq(mmi.Out, from + Len(data) + 1, Len(mmi.Out))
             = SubSeq(mmi.In, from + Len(data) + 1, Len(mmi.In))

C19_Witness ==
  /\ MmiFetched
  /\ Len(providers) = 2
  /\ providers[1] = GoodProvider(<<34, 34>>, 2)
  /\ providers[2] = GoodProvider(<<17>>, 1)
  /\ mmi.Status = EFI_SUCCESS
  /\ mmi.Fetched = <<[Index |-> 1, Ptr |-> HestInfo.ErrSourceDescList],
                     [Index |-> 2, Ptr |-> HestInfo.ErrSourceDescList + 2]>>
  /\ SubSeq(mmi.Out, HestInfo.ErrSourceDescList + 1,
            HestInfo.ErrSourceDescList + 3) = <<34, 34, 17>>

\* A driver that reports fewer bytes when fetched than when probed.
Shrinks(p) ==
  Contributes(p) /\ Writes(p) /\ p.Fetch.Length < p.Probe.Length

\* C20: when a driver reports fewer bytes in the fetch loop than it did in
\* the probe loop, the handler returns EFI_INVALID_PARAMETER.
C20_ShrinkAborts ==
  (MmiFetched /\ \E i \in 1..Len(providers) : Shrinks(providers[i])) =>
    mmi.Status = EFI_INVALID_PARAMETER
\* A driver that fails in the fetch loop: its handle does not resolve or its
\* call with a buffer returns an error.
Fails(p) == ~p.HandleOk \/ EFI_ERROR(p.Fetch.Status)

\* C21: when exactly one driver fails and every other driver succeeds,
\* reporting at fetch what it reported at probe, the handler returns
\* EFI_SUCCESS and the buffer behind the info block holds the other drivers'
\* bytes in discovery order, wherever in that order the failing driver is.
C21_ProviderIsolation ==
  (MmiFetched /\ Len(providers) >= 2
     /\ \E k \in 1..Len(providers) :
          /\ Fails(providers[k])
          /\ \A i \in 1..Len(providers) :
               i # k => AllConsistent(<<providers[i]>>)) =>
    /\ mmi.Status = EFI_SUCCESS
    /\ SubSeq(mmi.Out, HestInfo.ErrSourceDescList + 1,
              HestInfo.ErrSourceDescList + Len(FetchedData(providers, 1)))
         = FetchedData(providers, 1)

\* The record counts the drivers from i on report in the fetch loop.
RECURSIVE FetchedCount(_, _)
FetchedCount(provs, i) ==
  IF i > Len(provs) THEN 0
  ELSE (IF Writes(provs[i]) THEN provs[i].Fetch.Count ELSE 0)
         + FetchedCount(provs, i + 1)

\* C22: when the handler returns EFI_SUCCESS, ErrSourceDescSize in the info
\* block is the number of bytes the fetch loop wrote behind it and
\* ErrSourceDescCount is the sum of the record counts of the drivers whose
\* fetch succeeded.
C22_InfoMatchesPayload ==
  (MmiFetched /\ mmi.Status = EFI_SUCCESS) =>
    /\ ReadLE(mmi.Out, HestInfo.ErrSourceDescSize, 4)
         = Len(FetchedData(providers, 1))
    /\ ReadLE(mmi.Out, HestInfo.ErrSourceDescCount, 4)
         = FetchedCount(providers, 1)

(***************************************************************************)
(* The channel: properties.                                                *)
(***************************************************************************)
\* C8 (I4): while a data SMC of MmCommunication2Communicate is outstanding,
\* MessageLength + sizeof (HeaderGuid) + sizeof (MessageLength) of the
\* caller's buffer is at most mNsCommBuffMemRegion.Length, and exactly that
\* many bytes of the caller's buffer were copied to the start of the shared
\* buffer, the bytes after them being as the call found them.
C8_SmcWithinCapacity ==
  call.pc = "smc" =>
    LET n == MessageLengthOf(call.Comm) + SizeofHeaderGuid
               + SizeofMessageLength
    IN  /\ n <= mm.Length
        /\ call.BufferSize = n
        /\ Len(mNsCommBuffer) = mm.Length
        /\ \A i \in 1..Len(mNsCommBuffer) :
             mNsCommBuffer[i] = IF i <= n THEN call.Comm[i] ELSE call.Prior[i]

C8_Witness ==
  /\ call.pc = "smc"
  /\ call.BufferSize = mm.Length
  /\ call.Prior # mNsCommBuffer

\* The status a finished call must carry given the registers of the return
\* that ended it: EFI_SUCCESS exactly for a completion.
CompletionReturn(smc) ==
  smc.Arg0 \in {ARM_SVC_ID_FFA_MSG_SEND_DIRECT_RESP, ARM_SMC_MM_RET_SUCCESS}

\* C9: a call whose SMC returns "interrupted" k times issues the request
\* once and the resume exactly k times, returns to its caller only on a
\* return that is not "interrupted", with EFI_SUCCESS exactly when that
\* return is a completion, and does return (the secure side answering every
\* SMC).
C9_InterruptedResumes ==
  /\ [](call.pc = "smc" =>
          /\ call.Sent = 1
          /\ call.Resumes = call.Interrupts
          /\ call.Fid = IF call.Resumes = 0
                          THEN CommunicateFid(PcdFfaEnable # 0)
                          ELSE ARM_SVC_ID_FFA_RUN_AARCH32)
  /\ [](chanRet.Sent # 0 =>
          /\ chanRet.Sent = 1
          /\ chanRet.Resumes = chanRet.Interrupts
          /\ chanRet.Ret.Arg0 # ARM_SVC_ID_FFA_INTERRUPT_AARCH32
          /\ (chanRet.Status = EFI_SUCCESS) <=> CompletionReturn(chanRet.Ret)
          /\ chanRet.Status \in {EFI_SUCCESS, EFI_INVALID_PARAMETER,
                                 EFI_ACCESS_DENIED, EFI_OUT_OF_RESOURCES})
  /\ (call.pc = "smc") ~> (call.pc = "idle" /\ chanRet.Sent = 1)

C9_Witness ==
  /\ call.pc = "idle"
  /\ chanRet.Sent = 1
  /\ chanRet.Interrupts = MaxInterrupts
  /\ chanRet.Resumes = MaxInterrupts
  /\ chanRet.Status = EFI_SUCCESS

\* The major version field of a version word: bits 30..16.
MajorField(x) == x.hi % 32768

\* C10: in both build configurations, when the major version the secure side
\* reports differs from MM_CALLER_MAJOR_VER, MmCommunication2Initialize
\* returns an error, the communication protocol is not installed and no data
\* SMC is issued.
C10_MajorMismatchFails ==
  (mm.Done /\ MajorField(mm.Version) # MM_CALLER_MAJOR_VER) =>
    /\ EFI_ERROR(mm.Status)
    /\ ~mm.Installed
    /\ ~smcIssued

\* C11: when the version test of GetMmCompatibility fails on the major
\* version (legacy configuration, where that test decides the outcome),
\* MmCommunication2Initialize returns EFI_UNSUPPORTED.
C11_MismatchUnsupported ==
  (mm.Done /\ PcdFfaEnable = 0
     /\ MM_MAJOR_VER(mm.Version) # MM_CALLER_MAJOR_VER) =>
    mm.Status = EFI_UNSUPPORTED

\* The caller's view of a finished call that issued its SMC: the request size
\* and the size of the response found in the shared buffer.
RequestSize(ret) ==
  MessageLengthOf(ret.Req) + SizeofHeaderGuid + SizeofMessageLength

ResponseSize(ret) ==
  MessageLengthOf(ret.Shm) + SizeofHeaderGuid + SizeofMessageLength

\* C12: a call whose SMC ends with a return that is not a completion returns
\* EFI_INVALID_PARAMETER for the interface's INVALID_PARAMS code,
\* EFI_ACCESS_DENIED for its DENIED code, EFI_OUT_OF_RESOURCES for its
\* NO_MEMORY code and EFI_ACCESS_DENIED for any other code, never
\* EFI_SUCCESS, and leaves the caller's buffer as it was passed.
C12_ErrorMapping ==
  (chanRet.Sent = 1 /\ ~CompletionReturn(chanRet.Ret)) =>
    LET ffa      == PcdFfaEnable # 0
        code     == IF ffa THEN chanRet.Ret.Arg2 ELSE chanRet.Ret.Arg0
        invalid  == IF ffa THEN ARM_FFA_SPM_RET_INVALID_PARAMETERS
                           ELSE ARM_SMC_MM_RET_INVALID_PARAMS
        denied   == IF ffa THEN ARM_FFA_SPM_RET_DENIED
                           ELSE ARM_SMC_MM_RET_DENIED
        nomemory == IF ffa THEN ARM_FFA_SPM_RET_NO_MEMORY
                           ELSE ARM_SMC_MM_RET_NO_MEMORY
    IN  /\ chanRet.Status =
             CASE code = invalid  -> EFI_INVALID_PARAMETER
               [] code = denied   -> EFI_ACCESS_DENIED
               [] code = nomemory -> EFI_OUT_OF_RESOURCES
               [] OTHER           -> EFI_ACCESS_DENIED
        /\ chanRet.Status # EFI_SUCCESS
        /\ chanRet.Comm = chanRet.Req

\* C13: once a call has returned EFI_SUCCESS, the caller's buffer holds the
\* response (header and MessageLength bytes of data) as the shared buffer
\* held it when the SMC returned, and the bytes of the shared buffer the
\* call used, for its request and for the response, are zero.
C13_SuccessCopiesAndZeroes ==
  (call.pc = "idle" /\ chanRet.Sent = 1 /\ chanRet.Status = EFI_SUCCESS) =>
    /\ \A i \in 1..Len(chanRet.Comm) :
         i <= ResponseSize(chanRet) => chanRet.Comm[i] = chanRet.Shm[i]
    /\ \A i \in 1..Len(mNsCommBuffer) :
         (i <= RequestSize(chanRet) \/ i <= ResponseSize(chanRet)) =>
           mNsCommBuffer[i] = 0

\* C14: a call whose MessageLength is 0 or, with the 24 bytes of HeaderGuid
\* and MessageLength, exceeds mNsCommBuffMemRegion.Length returns
\* EFI_BAD_BUFFER_SIZE with MessageLength set to Length - 24 and the rest of
\* the caller's buffer untouched, and issues no SMC; a call whose *CommSize
\* is 0 or exceeds Length returns the same status with *CommSize set to
\* Length; and a call that returns EFI_BAD_BUFFER_SIZE leaves the shared
\* buffer as it was.
C14_BadBufferSize ==
  /\ [](chanRet.Req # <<>> =>
          LET m == MessageLengthOf(chanRet.Req)
          IN  /\ (m = 0 \/ m + SizeofHeaderGuid + SizeofMessageLength
                              > mm.Length) =>
                   /\ chanRet.Status = EFI_BAD_BUFFER_SIZE
                   /\ chanRet.Sent = 0
                   /\ Len(chanRet.Comm) = Len(chanRet.Req)
                   /\ MessageLengthOf(chanRet.Comm)
                        = mm.Length - SizeofHeaderGuid - SizeofMessageLength
                   /\ \A i \in 1..Len(chanRet.Req) :
                        (i <= MmHdr.MessageLength \/ i > MmHdr.Data) =>
                          chanRet.Comm[i] = chanRet.Req[i]
              /\ (~chanRet.ReqSize.null
                    /\ (chanRet.ReqSize.val = 0
                          \/ chanRet.ReqSize.val > mm.Length)) =>
                   /\ chanRet.Status = EFI_BAD_BUFFER_SIZE
                   /\ chanRet.Sent = 0
                   /\ chanRet.CommSize = CommSizeOf(mm.Length))
  /\ [][(chanRet' # chanRet /\ chanRet'.Status = EFI_BAD_BUFFER_SIZE) =>
          /\ mNsCommBuffer' = mNsCommBuffer
          /\ smcIssued' = smcIssued
          /\ call' = call]_vars

C14_Witness ==
  /\ chanRet.Status = EFI_BAD_BUFFER_SIZE
  /\ MessageLengthOf(chanRet.Req) = mm.Length - MmHdr.Data + 1
  /\ MessageLengthOf(chanRet.Comm) = mm.Length - MmHdr.Data
  /\ chanRet.ReqSize = CommSizeOf(mm.Length + 1)
  /\ chanRet.CommSize = CommSizeOf(mm.Length)
  /\ smcIssued
  /\ mNsCommBuffer # Zeros(PcdMmBufferSize)

\* C31: within one MmCommunication2Communicate call the caller writes the
\* shared buffer once, the copy of its request before the first SMC; while
\* the call is resumed after FFA_INTERRUPT it writes neither the shared
\* buffer nor its own buffer; and the response it copies out is the shared
\* buffer as the last SMC's return left it.
C31_PingPong ==
  [][/\ (call.pc = "idle" /\ call'.pc = "smc") =>
          /\ mNsCommBuffer'
               = WriteAt(mNsCommBuffer, 0,
                         ReadBytes(call'.Comm, call'.BufferSize))
          /\ call'.Sent = 1
     /\ (call.pc = "smc" /\ call'.pc = "smc") =>
          /\ mNsCommBuffer' = mNsCommBuffer
          /\ call'.Comm = call.Comm
          /\ call'.Sent = call.Sent
     /\ (call.pc = "smc" /\ call'.pc = "idle") =>
          /\ chanRet'.Shm = mNsCommBuffer'
          /\ chanRet'.Sent = 1
          /\ chanRet'.Status = EFI_SUCCESS =>
               SubSeq(chanRet'.Comm, 1, Len(call.Comm))
                 = SubSeq(WriteAt(WriteAt(call.Comm, 0,
                                          Zeros(call.BufferSize)), 0,
                                  ReadBytes(mNsCommBuffer', chanRet'.Copied)),
                          1, Len(call.Comm))]_vars

C31_Witness ==
  /\ chanRet.Status = EFI_SUCCESS
  /\ chanRet.Resumes >= 1
  /\ chanRet.Shm # chanRet.Req

RoundTrip(Status, Comm, prior, E, provs, allocOk, locate, relay, ffa) ==
  \E c \in {CommunicateChecks(Ptr(E), Ptr(E), NoCommSize, Len(prior))} :
  \E d \in {MmDispatch(CopyRequest(prior, E, c.BufferSize), provs, allocOk,
                        locate)} :
  \E r \in {CommunicateAfterSmc(
              ffa, E, c.BufferSize, d.Shm,
              DelegatedEventLoop(ffa, IF relay THEN d.Status
                                               ELSE EFI_SUCCESS))} :
    Status = r.Status /\ Comm = r.Comm

\* What an earlier call left in the shared buffer past the end of the last
\* response.
Leftover == SubSeq(chanRet.Shm, chanRet.Copied + 1, Len(chanRet.Shm))

\* C33: the response to an envelope, and its status, do not depend on what
\* earlier calls left in the shared buffer: they are those of the same
\* envelope sent, under the same providers, through a shared buffer that
\* was never used.  So two sendings of one envelope answer alike.
C33_IdempotentRoundTrip ==
  (chanRet.by = "client" /\ chanRet.Sent = 1 /\ mmi.Called) =>
    RoundTrip(chanRet.Status, chanRet.Comm, Zeros(PcdMmBufferSize),
              chanRet.Req, providers, mmi.AllocOk, mmi.Locate, mmi.Relay,
              PcdFfaEnable # 0)

\* A response of the smallest size, with descriptor bytes of an earlier,
\* larger response still behind it in the shared buffer.
C33_Witness ==
  /\ chanRet.by = "client"
  /\ chanRet.Status = EFI_SUCCESS
  /\ mmi.Called
  /\ chanRet.Copied = MM_COMMUNICATE_HEADER_SIZE + HEST_ERROR_SOURCE_DESC_INFO_SIZE
  /\ Leftover # Zeros(Len(Leftover))

(***************************************************************************)
(* Table builder and installer: further properties.                        *)
(***************************************************************************)
\* C34: InstallHestAcpiTable leaves the list empty whether InstallAcpiTable
\* succeeded or failed.  An install that follows an install at once returns
\* EFI_NOT_FOUND and does not call InstallAcpiTable, so one list is
\* published at most once; and the first append that succeeds after an
\* install builds a new header, whose length is the header's size plus what
\* was appended and whose count is what was appended.
C34_InstallConsumes ==
  /\ []((hestRet.op = "Install" /\ ~halted) =>
          IsListEmpty(gHestErrorSourceList))
  /\ [][/\ (hestRet.op = "Install" /\ hestRet'.op = "Install") =>
             (hestRet'.Status = EFI_NOT_FOUND /\ ~hestRet'.Called)
        /\ (hestRet.op = "Install" /\ hestRet'.op = "Add"
              /\ hestRet'.Status = EFI_SUCCESS) =>
             /\ Len(gHestErrorSourceList') = 2
             /\ Len(appended') = 1
             /\ ReadLE(GetFirstNode(gHestErrorSourceList').HestTableData,
                       HestHdr.Length, 4)
                  = HestHdr.Size + appended'[1].Size
             /\ ReadLE(GetFirstNode(gHestErrorSourceList').HestTableData,
                       HestHdr.ErrorSourceCount, 4)
                  = appended'[1].Count]_vars

\* A list of MaxDesc appends has been handed to InstallAcpiTable, which
\* failed, and the list is empty.
C34_Witness ==
  /\ hestRet.op = "Install"
  /\ hestRet.Called
  /\ EFI_ERROR(hestRet.Status)
  /\ Len(appended) = MaxDesc
  /\ IsListEmpty(gHestErrorSourceList)
  /\ ~halted

\* Whether the little-endian word a is less than the word b of equal length.
RECURSIVE LessLE(_, _, _)
LessLE(a, b, i) ==
  IF i = 0 THEN FALSE
  ELSE IF a[i] # b[i] THEN a[i] < b[i]
  ELSE LessLE(a, b, i - 1)

\* C35: the buffer InstallHestAcpiTable allocates for a list, Header.Length
\* bytes, is not smaller than the number of bytes it copies into it, the
\* sum of DataLength over the nodes.
C35_LengthCoversCopies ==
  ~IsListEmpty(gHestErrorSourceList) =>
    ~LessLE(HestTableSize(gHestErrorSourceList) \o Zeros(4),
            CopiedLength(gHestErrorSourceList), 8)

\* C38: the version test accepts a version word exactly when its major
\* field, bits 30..16, is MM_CALLER_MAJOR_VER and its minor field, bits
\* 15..0, is at least MM_CALLER_MINOR_VER; a word with bit 31 set is
\* rejected.
C38_VersionTestExact ==
  mm.Done =>
    /\ VersionCompatible(PcdFfaEnable, mm.Version)
         <=> /\ MajorField(mm.Version) = MM_CALLER_MAJOR_VER
             /\ mm.Version.lo >= MM_CALLER_MINOR_VER(PcdFfaEnable)
    /\ mm.Version.hi >= 32768 => ~VersionCompatible(PcdFfaEnable, mm.Version)

\* C36: on a successful return the number of bytes copied from the shared
\* buffer into the caller's buffer exceeds neither the size of the caller's
\* buffer, the request's MessageLength plus the header, nor the capacity of
\* the shared buffer.
C36_CopyBackBounded ==
  (chanRet.Sent = 1 /\ chanRet.Status = EFI_SUCCESS) =>
    /\ chanRet.Copied
         <= MessageLengthOf(chanRet.Req) + SizeofHeaderGuid
              + SizeofMessageLength
    /\ chanRet.Copied <= mm.Length

\* C37: in the fetch loop every driver that writes is handed a destination
\* with room, inside the CommBufferSize bytes at CommBuffer, for what it
\* writes, and the cursor as advanced past it stays inside those bytes.
C37_CursorInBuffer ==
  MmiFetched =>
    \A k \in 1..Len(mmi.Fetched) :
      LET c == mmi.Fetched[k]
          p == providers[c.Index]
      IN  ~EFI_ERROR(p.Fetch.Status) =>
            /\ c.Ptr + Len(p.Fetch.Data) <= mmi.CommBufferSize
            /\ AdvancePtr(c.Ptr, p.Fetch.Length) <= mmi.CommBufferSize

\* C39: when the event loop completes a request with a status other than
\* EFI_SUCCESS and the registers of its completion are what the caller's SMC
\* returns, Communicate returns a status other than EFI_SUCCESS for that
\* request, with or without FF-A; EFI_SUCCESS, EFI_INVALID_PARAMETER,
\* EFI_ACCESS_DENIED and EFI_OUT_OF_RESOURCES reach the caller unchanged.
C39_CalleeFailureReachesCaller ==
  ( /\ chanRet.Sent = 1
    /\ mmi.Called
    /\ mmi.Relay
    /\ chanRet.Ret = DelegatedEventLoop(PcdFfaEnable # 0, mmi.Status) ) =>
      /\ mmi.Status # EFI_SUCCESS => chanRet.Status # EFI_SUCCESS
      /\ mmi.Status \in {EFI_SUCCESS, EFI_INVALID_PARAMETER,
                         EFI_ACCESS_DENIED, EFI_OUT_OF_RESOURCES}
           => chanRet.Status = mmi.Status

=============================================================================
